---- MODULE Spec2Model ----
(***************************************************************************)
(* Model of the nightfall-go-sdk file scan path: Client.do (the retrying   *)
(* request executor), Client.doChunkedUpload (the bounded fan-out of chunk *)
(* uploads) and Client.ScanFile (initiate, upload, finish, scan).          *)
(*                                                                         *)
(* One ScanFile call is modelled.  The dispatch loop of doChunkedUpload    *)
(* and every chunk goroutine are separate processes whose statements       *)
(* interleave; the http transport, the content reader and the context      *)
(* deadline are the environment.                                           *)
(*                                                                         *)
(* The environment is explored in two profiles, fixed in Init: a reader    *)
(* that fills every buffer against a server that may answer any status     *)
(* (429 and the retry loop included), and a reader that does anything the  *)
(* io.Reader contract allows against a server that answers 200 or 500.     *)
(*                                                                         *)
(* Spec is one ScanFile call on a constructed client; FairSpec adds the    *)
(* scheduling under which it terminates; SpecClient is NewClient applying  *)
(* a list of options; SpecWebhook is one WebhookValidator.Validate call;   *)
(* SpecCheck is one checkResponse call on a response with any body.        *)
(***************************************************************************)
EXTENDS Integers, Sequences, FiniteSets, TLC

\* ------------------------------------------------------------------ bounds
MaxConcurrency == 2      \* largest fileUploadConcurrency explored (code: 1..100)
MaxSize == 3             \* largest fileSizeBytes a session reports
MaxChunk == 2            \* largest chunkSize a session reports
MaxSrcLen == 3           \* largest number of bytes the content reader holds
MaxOptions == 3          \* largest number of options passed to NewClient
MaxBodyLen == 1          \* longest webhook request body, in characters
MaxTimeLen == 2          \* longest webhook timestamp header, in characters
MaxNow == 4              \* latest time.Now() at which a webhook is received, in seconds

\* ------------------------------------------------------- program constants
DefaultFileUploadConcurrency == 1
DefaultRetryCount == 5
MaxFileUploadConcurrency == 100
DefaultThreshold == 300  \* 5 * time.Minute, in seconds
StatusOK == 200
StatusBadRequest == 400
StatusTooManyRequests == 429
StatusInternalServerError == 500
NoStatus == 0            \* the transport call returned an error, no response

\* ------------------------------------------------------------------ errors
\* Go error values.  kind "nil" is the nil error; "Error" is *nightfall.Error
\* with its Code; "ctx" is ctx.Err() (code 1 = context.Canceled, code 2 =
\* context.DeadlineExceeded); "transport" is the raw error of httpClient.Do;
\* "decode" is a json decoding error; "read" is a content.Read error other
\* than io.EOF; "retryable429" is the sentinel errRetryable429.
Nil == [kind |-> "nil", code |-> 0]
errRetryable429 == [kind |-> "retryable429", code |-> 0]
TransportErr == [kind |-> "transport", code |-> 0]
DecodeErr == [kind |-> "decode", code |-> 0]
ReadErr == [kind |-> "read", code |-> 0]
Canceled == [kind |-> "ctx", code |-> 1]
DeadlineExceeded == [kind |-> "ctx", code |-> 2]
StructuredError(status) == [kind |-> "Error", code |-> status]

\* ------------------------------------------------------------ checkResponse
\* The body of a response as checkResponse meets it: "unreadable" makes
\* ioutil.ReadAll fail, "absent" has no bytes, "invalid" makes json.Unmarshal
\* fail, "json" unmarshals into an Error whose Code is code (0 when the
\* object has no code).  Of the fields of Error only Code is modelled.
BodyKinds == {"unreadable", "absent", "invalid", "json"}
NoBody == [kind |-> "absent", code |-> 0]

checkResponseStatusOnly(status, body) ==
    IF 200 <= status /\ status <= 299 THEN Nil ELSE StructuredError(status)

checkResponse(status, body) ==
    IF 200 <= status /\ status <= 299 THEN Nil
    ELSE IF body.kind \in {"unreadable", "absent"} THEN StructuredError(status)
         ELSE IF body.kind = "invalid" THEN StructuredError(status)
              ELSE StructuredError(body.code)

\* ----------------------------------------------------------------- Client.do
\* The local state of one do() call.  attempt is the loop variable; inflight
\* says that httpClient.Do has been called and has not returned; backoff says
\* that the attempt returned errRetryable429 and time.Sleep has not been
\* called yet; done/err are
\* the return; calls, sleeps and n429 count the transport calls, the backoff
\* sleeps and the 429 answers of the call, last and lastBody are the status
\* and the body of its latest answer.
NewDo ==
    [attempt |-> 1, inflight |-> FALSE, backoff |-> FALSE, done |-> FALSE, err |-> Nil,
     calls |-> 0, sleeps |-> 0, n429 |-> 0, last |-> NoStatus, lastBody |-> "empty"]

Statuses == {StatusOK, StatusBadRequest, StatusTooManyRequests, StatusInternalServerError}

\* What one httpClient.Do can produce: a transport error (NoStatus) or a
\* response with a status and a body.  body is "empty", "bad" (not decodable
\* into the requested shape) or "json".
Outcomes ==
    [status : {NoStatus}, body : {"empty"}] \cup [status : Statuses, body : {"empty", "bad", "json"}]

\* The loop condition of do().
LoopCond(attempt, retries) == attempt <= retries + 1

\* The value returned by the closure run for one attempt (nightfall.go 129-162).
\* ctxErr is ctx.Err() of the context the request carries (Nil while live).
AttemptResultRetryAll(attempt, retries, ctxErr, out, wantResp) ==
    IF out.status = NoStatus
    THEN IF ctxErr # Nil THEN ctxErr ELSE TransportErr
    ELSE IF checkResponse(out.status, NoBody) # Nil
         THEN IF attempt >= retries + 1
              THEN checkResponse(out.status, NoBody)
              ELSE errRetryable429
         ELSE IF wantResp /\ out.body = "bad" THEN DecodeErr ELSE Nil

AttemptResultNoLimit(attempt, retries, ctxErr, out, wantResp) ==
    IF out.status = NoStatus
    THEN IF ctxErr # Nil THEN ctxErr ELSE TransportErr
    ELSE IF checkResponse(out.status, NoBody) # Nil
         THEN IF out.status = StatusTooManyRequests
              THEN errRetryable429
              ELSE checkResponse(out.status, NoBody)
         ELSE IF wantResp /\ out.body = "bad" THEN DecodeErr ELSE Nil

AttemptResultEOFKept(attempt, retries, ctxErr, out, wantResp) ==
    IF out.status = NoStatus
    THEN IF ctxErr # Nil THEN ctxErr ELSE TransportErr
    ELSE IF checkResponse(out.status, NoBody) # Nil
         THEN IF out.status = StatusTooManyRequests
              THEN IF attempt >= retries + 1
                   THEN checkResponse(out.status, NoBody)
                   ELSE errRetryable429
              ELSE checkResponse(out.status, NoBody)
         ELSE IF wantResp /\ out.body # "json" THEN DecodeErr ELSE Nil

AttemptResultRawErr(attempt, retries, ctxErr, out, wantResp) ==
    IF out.status = NoStatus
    THEN TransportErr
    ELSE IF checkResponse(out.status, NoBody) # Nil
         THEN IF out.status = StatusTooManyRequests
              THEN IF attempt >= retries + 1
                   THEN checkResponse(out.status, NoBody)
                   ELSE errRetryable429
              ELSE checkResponse(out.status, NoBody)
         ELSE IF wantResp /\ out.body = "bad" THEN DecodeErr ELSE Nil

AttemptResultSentinelLast(attempt, retries, ctxErr, out, wantResp) ==
    IF out.status = NoStatus
    THEN IF ctxErr # Nil THEN ctxErr ELSE TransportErr
    ELSE IF checkResponse(out.status, NoBody) # Nil
         THEN IF out.status = StatusTooManyRequests
              THEN errRetryable429
              ELSE checkResponse(out.status, NoBody)
         ELSE IF wantResp /\ out.body = "bad" THEN DecodeErr ELSE Nil

AttemptResultBodyChecked(attempt, retries, ctxErr, out, wantResp) ==
    IF out.status = NoStatus
    THEN IF ctxErr # Nil THEN ctxErr ELSE TransportErr
    ELSE IF checkResponse(out.status, NoBody) # Nil
         THEN IF out.status = StatusTooManyRequests
              THEN IF attempt >= retries + 1
                   THEN checkResponse(out.status, NoBody)
                   ELSE errRetryable429
              ELSE checkResponse(out.status, NoBody)
         ELSE IF out.body = "bad" THEN DecodeErr ELSE Nil

AttemptResult(attempt, retries, ctxErr, out, wantResp) ==
    IF out.status = NoStatus
    THEN IF ctxErr # Nil THEN ctxErr ELSE TransportErr
    ELSE IF checkResponse(out.status, NoBody) # Nil
         THEN IF out.status = StatusTooManyRequests
              THEN IF attempt >= retries + 1
                   THEN checkResponse(out.status, NoBody)
                   ELSE errRetryable429
              ELSE checkResponse(out.status, NoBody)
         ELSE IF wantResp /\ out.body = "bad" THEN DecodeErr ELSE Nil

\* do() reaches the top of its loop (after time.Sleep has returned, if this
\* is a retry): either the loop is over (return nil) or the request of this
\* attempt is handed to the transport.
DoSend(d, retries) ==
    IF LoopCond(d.attempt, retries)
    THEN [d EXCEPT !.inflight = TRUE, !.calls = @ + 1]
    ELSE [d EXCEPT !.done = TRUE, !.err = Nil]

\* httpClient.Do returns with outcome out and the closure of this attempt
\* returns: nil breaks and returns nil, errRetryable429 leads to the backoff,
\* every other error is returned.
DoReceive(d, retries, ctxErr, out, wantResp) ==
    LET e == AttemptResult(d.attempt, retries, ctxErr, out, wantResp)
        r == [d EXCEPT !.inflight = FALSE, !.last = out.status, !.lastBody = out.body,
                       !.n429 = IF out.status = StatusTooManyRequests THEN @ + 1 ELSE @]
    IN  IF e = errRetryable429
        THEN [r EXCEPT !.backoff = TRUE]
        ELSE [r EXCEPT !.done = TRUE, !.err = e]

\* time.Sleep(time.Second) is called, whatever the state of the context, and
\* continue runs the post statement of the loop (nightfall.go 165-168).
DoSleep(d) ==
    [d EXCEPT !.backoff = FALSE, !.attempt = @ + 1, !.sleeps = @ + 1]

\* What the transport can answer to a request carrying a context in state
\* ctxErr: a request whose context is done fails (net/http returns the
\* context's error from Do); otherwise any outcome is possible.  A server
\* that does not throttle answers 200 or 500 only.  Bodies are distinguished
\* on 2xx answers, where do() may decode them, with or without a shape.
TransportOutcomes(ctxErr, wantResp, throttles) ==
    IF ctxErr # Nil
    THEN {[status |-> NoStatus, body |-> "empty"]}
    ELSE {o \in Outcomes :
            /\ throttles \/ o.status \in {NoStatus, StatusOK, StatusInternalServerError}
            /\ \/ o.body = "empty"
               \/ o.status = StatusOK}

\* ------------------------------------------------------------------- state
VARIABLES
    response,               \* an *http.Response given to checkResponse, and what it returned
    webhook,                \* a WebhookValidator, one request to it and what Validate returned
    envKey,                 \* os.Getenv("NIGHTFALL_API_KEY")
    options,                \* the options passed to NewClient
    applied,                \* how many of them NewClient has applied
    created,                \* what NewClient returned
    apiKey,                 \* Client.apiKey
    fileUploadConcurrency,  \* Client.fileUploadConcurrency
    retryCount,             \* Client.retryCount
    timeoutSet,             \* request.Timeout > 0
    readerKind,             \* "full": request.Content fills the buffer; "any"
    throttling,             \* the server may answer 429 and 4xx
    srcLen,                 \* bytes the content reader holds in total
    srcPos,                 \* bytes of the content reader consumed so far
    ctxErr,                 \* ctx.Err() of ScanFile's context (Nil while live)
    uploadCtxErr,           \* uploadCtx.Err() of doChunkedUpload
    pc,                     \* position of the ScanFile goroutine
    mdo,                    \* the do() call the ScanFile goroutine is in
    fileUpload,             \* *fileUploadResponse decoded by initFileUpload
    scanResponse,           \* *ScanFileResponse decoded by scanUploadedFile
    offset,                 \* loop variable of the dispatch loop
    bytesRead,              \* result of the last content.Read
    concurrencyChan,        \* number of elements in concurrencyChan
    errChan,                \* contents of errChan (capacity 1)
    wg,                     \* counter of the WaitGroup
    tasks,                  \* the chunk goroutines, in dispatch order
    ret,                    \* what ScanFile returned
    issued,                 \* steps that handed a request to the transport
    reached,                \* ... while the request's context was live
    invoked,                \* how often each step function was called
    stepErr,                \* the error each step function returned
    firedAt,                \* goroutines dispatched when the deadline fired
    stalled,                \* a chunk request was in flight when it fired
    lateStarts,             \* goroutines started when uploadCtx was already done
    lostOnEOF,              \* bytes returned by a Read together with io.EOF
    scanSent                \* the scan response body the server wrote

responseVars == <<response>>
validatorVars == <<webhook>>
clientVars == <<envKey, options, applied, created, apiKey, fileUploadConcurrency, retryCount>>
requestVars == <<timeoutSet, srcLen, readerKind, throttling>>
ctxVars == <<ctxErr, uploadCtxErr>>
loopVars == <<offset, bytesRead, srcPos, lostOnEOF>>
chanVars == <<concurrencyChan, errChan, wg>>
respVars == <<fileUpload, scanResponse, scanSent>>
histVars == <<issued, reached, invoked, stepErr, firedAt, stalled, lateStarts>>
vars == <<responseVars, validatorVars, clientVars, requestVars, ctxVars, loopVars, chanVars, respVars, histVars,
          pc, mdo, tasks, ret>>

Steps == {"init", "upload", "finish", "scan"}
Pending == [kind |-> "pending", code |-> 0]

\* No response is given to checkResponse on its own.
NoResponse == [StatusCode |-> 0, Body |-> [kind |-> "absent", code |-> 0], err |-> Pending]

\* No webhook validator exists.
NoWebhook ==
    [secret |-> "", threshold |-> 0, body |-> <<>>, signature |-> "", time |-> <<>>,
     now |-> 0, ret |-> [valid |-> FALSE, err |-> Pending]]

\* fileUploadResponse values: the zero value (empty body) and what a server
\* can answer.
ZeroFileUpload == [FileSizeBytes |-> 0, ChunkSize |-> 0]
Sessions == [FileSizeBytes : 0..MaxSize, ChunkSize : 1..MaxChunk]

\* ScanFileResponse values; NilResponse is the nil pointer.
NilResponse == [ID |-> "<nil>", Message |-> "<nil>"]
ZeroScanResponse == [ID |-> "", Message |-> ""]
ScanResponses == {[ID |-> "f1", Message |-> "scan initiated"],
                  [ID |-> "f2", Message |-> "queued"]}

Min(a, b) == IF a <= b THEN a ELSE b

\* A chunk goroutine (file.go 137-165).  phase is its position: "do" in
\* c.do, "errChan" before the select that offers err to errChan, "cancel"
\* before cancel(), "wgDone" before the deferred wg.Done(), "release" before
\* the deferred <-concurrencyChan, "exit" after it.
NewTaskOffsetByRef(o, n) ==
    [o |-> o + n, len |-> n, phase |-> "do", do |-> NewDo, err |-> Nil, ok |-> FALSE]

NewTaskSpentAttempt(o, n) ==
    [o |-> o, len |-> n, phase |-> "do", do |-> [NewDo EXCEPT !.attempt = 2],
     err |-> Nil, ok |-> FALSE]

NewTask(o, n) ==
    [o |-> o, len |-> n, phase |-> "do", do |-> NewDo, err |-> Nil, ok |-> FALSE]

\* Where a goroutine goes when its do() call has returned err.
AfterDoNoDefer(d) ==
    IF ~d.done THEN "do" ELSE IF d.err = Nil THEN "wgDone" ELSE "exit"

AfterDoSkipRecord(d) ==
    IF ~d.done THEN "do" ELSE IF d.err = Nil THEN "wgDone" ELSE "cancel"

AfterDo(d) ==
    IF ~d.done THEN "do" ELSE IF d.err = Nil THEN "wgDone" ELSE "errChan"

Running(t) == t.phase # "exit"
Waited(t) == t.phase \in {"release", "exit"}

\* The state in which ScanFile is called: on a client that
\* NewClient(OptionFileUploadConcurrency(n)) returned, the key coming from
\* the environment.
Init ==
    /\ fileUploadConcurrency \in 1..MaxConcurrency
    /\ retryCount = DefaultRetryCount
    /\ response = NoResponse
    /\ webhook = NoWebhook
    /\ envKey = "env-key"
    /\ apiKey = "env-key"
    /\ options = <<[kind |-> "FileUploadConcurrency", key |-> "", n |-> fileUploadConcurrency]>>
    /\ applied = 1
    /\ created = [client |-> TRUE, err |-> Nil]
    /\ timeoutSet \in BOOLEAN
    /\ \/ readerKind = "full" /\ throttling = TRUE
       \/ readerKind = "any" /\ throttling = FALSE
    /\ srcLen \in 0..MaxSrcLen
    /\ srcPos = 0
    /\ ctxErr = Nil
    /\ uploadCtxErr = Nil
    /\ pc = "init"
    /\ mdo = NewDo
    /\ fileUpload = ZeroFileUpload
    /\ scanResponse = ZeroScanResponse
    /\ offset = 0
    /\ bytesRead = 0
    /\ concurrencyChan = 0
    /\ errChan = <<>>
    /\ wg = 0
    /\ tasks = <<>>
    /\ ret = [resp |-> NilResponse, err |-> Pending]
    /\ issued = {}
    /\ reached = {}
    /\ invoked = [s \in Steps |-> IF s = "init" THEN 1 ELSE 0]
    /\ stepErr = [s \in Steps |-> Pending]
    /\ firedAt = -1
    /\ lateStarts = 0
    /\ stalled = FALSE
    /\ lostOnEOF = 0
    /\ scanSent = ZeroScanResponse

\* ----------------------------------------------------------------- NewClient
errMissingAPIKey == [kind |-> "missing api key", code |-> 0]
errInvalidFileUploadConcurrency == [kind |-> "invalid fileUploadConcurrency", code |-> 0]

\* The options of the package, as values: OptionAPIKey(key),
\* OptionHTTPClient(client) and OptionFileUploadConcurrency(n).
Keys == {"", "key"}
ConcurrencyInputs ==
    {-1, 0, DefaultFileUploadConcurrency, MaxConcurrency,
     MaxFileUploadConcurrency, MaxFileUploadConcurrency + 1}
Options ==
    [kind : {"APIKey"}, key : Keys, n : {0}]
    \cup [kind : {"HTTPClient"}, key : {""}, n : {0}]
    \cup [kind : {"FileUploadConcurrency"}, key : {""}, n : ConcurrencyInputs]

RECURSIVE OptionLists(_)
OptionLists(len) ==
    IF len = 0 THEN {<<>>}
    ELSE OptionLists(len - 1)
         \cup {Append(l, o) : l \in {m \in OptionLists(len - 1) : Len(m) = len - 1}, o \in Options}

\* The closure OptionFileUploadConcurrency(n) returns, applied to a client
\* whose fileUploadConcurrency is cur: its error and the field afterwards.
OptionFileUploadConcurrencyNoUpper(n, cur) ==
    IF n <= 0
    THEN [err |-> errInvalidFileUploadConcurrency, value |-> cur]
    ELSE [err |-> Nil, value |-> n]

OptionFileUploadConcurrency(n, cur) ==
    IF n > MaxFileUploadConcurrency \/ n <= 0
    THEN [err |-> errInvalidFileUploadConcurrency, value |-> cur]
    ELSE [err |-> Nil, value |-> n]

OptionAPIKey(key, cur) == [err |-> Nil, value |-> key]

\* NewClient has not returned.
Constructing == [client |-> FALSE, err |-> Pending]

\* The client literal at the top of NewClient (nightfall.go 42-48), before
\* any option is applied; no ScanFile call exists yet.
InitClient ==
    /\ response = NoResponse
    /\ webhook = NoWebhook
    /\ envKey \in {"", "env-key"}
    /\ options \in OptionLists(MaxOptions)
    /\ applied = 0
    /\ created = Constructing
    /\ apiKey = envKey
    /\ fileUploadConcurrency = DefaultFileUploadConcurrency
    /\ retryCount = DefaultRetryCount
    /\ timeoutSet = FALSE
    /\ readerKind = "full" /\ throttling = FALSE
    /\ srcLen = 0
    /\ srcPos = 0
    /\ ctxErr = Nil
    /\ uploadCtxErr = Nil
    /\ pc = "new"
    /\ mdo = NewDo
    /\ fileUpload = ZeroFileUpload
    /\ scanResponse = ZeroScanResponse
    /\ offset = 0
    /\ bytesRead = 0
    /\ concurrencyChan = 0
    /\ errChan = <<>>
    /\ wg = 0
    /\ tasks = <<>>
    /\ ret = [resp |-> NilResponse, err |-> Pending]
    /\ issued = {}
    /\ reached = {}
    /\ invoked = [s \in Steps |-> 0]
    /\ stepErr = [s \in Steps |-> Pending]
    /\ firedAt = -1
    /\ lateStarts = 0
    /\ stalled = FALSE
    /\ lostOnEOF = 0
    /\ scanSent = ZeroScanResponse

\* One iteration of the loop over the options (nightfall.go 50-55): the
\* option is applied to the client, and its error makes NewClient return
\* nil and that error.
ApplyOption ==
    /\ created = Constructing /\ applied < Len(options)
    /\ applied' = applied + 1
    /\ LET opt == options[applied + 1]
           r == IF opt.kind = "FileUploadConcurrency"
                THEN OptionFileUploadConcurrency(opt.n, fileUploadConcurrency)
                ELSE [err |-> Nil, value |-> fileUploadConcurrency]
           k == IF opt.kind = "APIKey" THEN OptionAPIKey(opt.key, apiKey)
                ELSE [err |-> Nil, value |-> apiKey]
       IN  /\ fileUploadConcurrency' = r.value
           /\ apiKey' = k.value
           /\ created' = IF r.err # Nil THEN [client |-> FALSE, err |-> r.err]
                         ELSE IF k.err # Nil THEN [client |-> FALSE, err |-> k.err]
                         ELSE created
    /\ UNCHANGED <<response, webhook, envKey, options, retryCount, requestVars, ctxVars, loopVars, chanVars,
                   respVars, histVars, pc, mdo, tasks, ret>>

\* After the loop (nightfall.go 57-61): an empty key makes NewClient return
\* nil and errMissingAPIKey, else it returns the client.
ValidateKey ==
    /\ created = Constructing /\ applied = Len(options)
    /\ created' = IF apiKey = "" THEN [client |-> FALSE, err |-> errMissingAPIKey]
                  ELSE [client |-> TRUE, err |-> Nil]
    /\ UNCHANGED <<response, webhook, envKey, options, applied, apiKey, fileUploadConcurrency, retryCount,
                   requestVars, ctxVars, loopVars, chanVars, respVars, histVars,
                   pc, mdo, tasks, ret>>

NextClient == ApplyOption \/ ValidateKey

SpecClient == InitClient /\ [][NextClient]_vars

\* ----------------------------------------------------------- WebhookValidator
\* Strings are sequences of one-character strings, so that concatenation and
\* parsing are computed.  All the sequences over chars of at most len
\* characters:
RECURSIVE StringsUpTo(_, _)
StringsUpTo(chars, len) ==
    IF len = 0 THEN {<<>>}
    ELSE StringsUpTo(chars, len - 1)
         \cup {Append(t, c) : t \in {u \in StringsUpTo(chars, len - 1) : Len(u) = len - 1},
                              c \in chars}

BodyChars == {"b", ":"}
TimeChars == {"-", "1", "2", "x"}

DecimalDigits == <<"0", "1", "2", "3", "4", "5", "6", "7", "8", "9">>
IsDigit(c) == \E v \in 1..Len(DecimalDigits) : DecimalDigits[v] = c
DigitValue(c) == (CHOOSE v \in 1..Len(DecimalDigits) : DecimalDigits[v] = c) - 1

RECURSIVE DecimalValue(_)
DecimalValue(t) ==
    IF t = <<>> THEN 0
    ELSE 10 * DecimalValue(SubSeq(t, 1, Len(t) - 1)) + DigitValue(t[Len(t)])

ParseErr == [kind |-> "strconv", code |-> 0]

\* strconv.ParseInt(t, 10, 64): an optional sign followed by at least one
\* decimal digit and nothing else.  (The strings explored are too short to
\* leave the range of int64.)
ParseInt(t) ==
    LET signed == t # <<>> /\ t[1] \in {"+", "-"}
        digits == IF signed THEN Tail(t) ELSE t
    IN  IF digits = <<>> \/ \E k \in 1..Len(digits) : ~IsDigit(digits[k])
        THEN [value |-> 0, err |-> ParseErr]
        ELSE [value |-> IF signed /\ t[1] = "-" THEN 0 - DecimalValue(digits)
                        ELSE DecimalValue(digits),
              err |-> Nil]

\* hex.EncodeToString of the HMAC-SHA256 of payload under key: equal results
\* for equal keys and payloads only.  EmptySignature is the empty string.
Hmac(key, payload) == [key |-> key, payload |-> payload]
EmptySignature == [key |-> "", payload |-> <<>>]

\* fmt.Sprintf("%s:%s", requestTime, requestBody)
hashPayload(requestTime, requestBody) == requestTime \o <<":">> \o requestBody

\* NewWebhookValidator(signingSecret, opts...): every option is an
\* OptionThreshold, given here by its threshold in seconds; the options are
\* applied in order to a validator that starts with DefaultThreshold.
Thresholds == {-1, 0, 1, 2}
ThresholdOptions == {<<>>} \cup {<<t>> : t \in Thresholds}
NewWebhookValidator(signingSecret, opts) ==
    [signingSecret |-> signingSecret,
     threshold |-> IF opts = <<>> THEN DefaultThreshold ELSE opts[Len(opts)]]

\* WebhookValidator.Validate called at time now (seconds since the epoch):
\* its two return values.
ValidateIgnoresSignature(w, requestBody, requestSignature, requestTime, now) ==
    IF requestBody = <<>> \/ requestSignature = EmptySignature \/ requestTime = <<>>
    THEN [valid |-> FALSE, err |-> Nil]
    ELSE IF ParseInt(requestTime).err # Nil
         THEN [valid |-> FALSE, err |-> ParseInt(requestTime).err]
         ELSE IF now - ParseInt(requestTime).value > w.threshold
              THEN [valid |-> FALSE, err |-> Nil]
              ELSE [valid |-> TRUE, err |-> Nil]

Validate(w, requestBody, requestSignature, requestTime, now) ==
    IF requestBody = <<>> \/ requestSignature = EmptySignature \/ requestTime = <<>>
    THEN [valid |-> FALSE, err |-> Nil]
    ELSE IF ParseInt(requestTime).err # Nil
         THEN [valid |-> FALSE, err |-> ParseInt(requestTime).err]
         ELSE IF now - ParseInt(requestTime).value > w.threshold
              THEN [valid |-> FALSE, err |-> Nil]
              ELSE [valid |-> Hmac(w.signingSecret, hashPayload(requestTime, requestBody))
                                = requestSignature,
                    err |-> Nil]

\* The signatures a request with this timestamp and body may carry: none,
\* the one Nightfall computes under the validator's secret, one under another
\* key, and one under the secret for another body.
Signatures(secret, requestTime, requestBody) ==
    {EmptySignature,
     Hmac(secret, hashPayload(requestTime, requestBody)),
     Hmac("another secret", hashPayload(requestTime, requestBody)),
     Hmac(secret, hashPayload(requestTime, Append(requestBody, "b")))}

\* A validator and a request that reaches it at time now; no client and no
\* ScanFile call exist.
InitWebhook ==
    /\ \E option \in ThresholdOptions,
          requestBody \in StringsUpTo(BodyChars, MaxBodyLen),
          requestTime \in StringsUpTo(TimeChars, MaxTimeLen),
          now \in 0..MaxNow :
          \E requestSignature \in Signatures("some secret", requestTime, requestBody) :
             webhook = [secret |-> "some secret",
                        threshold |-> NewWebhookValidator("some secret", option).threshold,
                        body |-> requestBody, signature |-> requestSignature,
                        time |-> requestTime, now |-> now,
                        ret |-> [valid |-> FALSE, err |-> Pending]]
    /\ response = NoResponse
    /\ envKey = ""
    /\ options = <<>>
    /\ applied = 0
    /\ created = Constructing
    /\ apiKey = ""
    /\ fileUploadConcurrency = DefaultFileUploadConcurrency
    /\ retryCount = DefaultRetryCount
    /\ timeoutSet = FALSE
    /\ readerKind = "full" /\ throttling = FALSE
    /\ srcLen = 0
    /\ srcPos = 0
    /\ ctxErr = Nil
    /\ uploadCtxErr = Nil
    /\ pc = "new"
    /\ mdo = NewDo
    /\ fileUpload = ZeroFileUpload
    /\ scanResponse = ZeroScanResponse
    /\ offset = 0
    /\ bytesRead = 0
    /\ concurrencyChan = 0
    /\ errChan = <<>>
    /\ wg = 0
    /\ tasks = <<>>
    /\ ret = [resp |-> NilResponse, err |-> Pending]
    /\ issued = {}
    /\ reached = {}
    /\ invoked = [s \in Steps |-> 0]
    /\ stepErr = [s \in Steps |-> Pending]
    /\ firedAt = -1
    /\ lateStarts = 0
    /\ stalled = FALSE
    /\ lostOnEOF = 0
    /\ scanSent = ZeroScanResponse

\* The request handler calls Validate on the request.
ValidateCall ==
    /\ webhook.ret.err = Pending
    /\ webhook' = [webhook EXCEPT !.ret =
                      Validate([signingSecret |-> webhook.secret, threshold |-> webhook.threshold],
                               webhook.body, webhook.signature, webhook.time, webhook.now)]
    /\ UNCHANGED <<responseVars, clientVars, requestVars, ctxVars, loopVars, chanVars, respVars,
                   histVars, pc, mdo, tasks, ret>>

NextWebhook == ValidateCall

SpecWebhook == InitWebhook /\ [][NextWebhook]_vars

\* ------------------------------------------------- checkResponse on its own
\* The responses explored: statuses around and away from the 2xx range, and
\* every kind of body; a body that unmarshals may carry any of these codes.
CheckStatuses == {100, 199, 200, 204, 299, 300, 400, 404, 429, 500, 503}
BodyCodes == {0, 400, 429, 500}
Bodies ==
    [kind : BodyKinds \ {"json"}, code : {0}] \cup [kind : {"json"}, code : BodyCodes]

\* A response that checkResponse is about to be called on; no client, no
\* ScanFile call and no validator exist.
InitCheck ==
    /\ \E status \in CheckStatuses, body \in Bodies :
          response = [StatusCode |-> status, Body |-> body, err |-> Pending]
    /\ webhook = NoWebhook
    /\ envKey = ""
    /\ options = <<>>
    /\ applied = 0
    /\ created = Constructing
    /\ apiKey = ""
    /\ fileUploadConcurrency = DefaultFileUploadConcurrency
    /\ retryCount = DefaultRetryCount
    /\ timeoutSet = FALSE
    /\ readerKind = "full" /\ throttling = FALSE
    /\ srcLen = 0
    /\ srcPos = 0
    /\ ctxErr = Nil
    /\ uploadCtxErr = Nil
    /\ pc = "new"
    /\ mdo = NewDo
    /\ fileUpload = ZeroFileUpload
    /\ scanResponse = ZeroScanResponse
    /\ offset = 0
    /\ bytesRead = 0
    /\ concurrencyChan = 0
    /\ errChan = <<>>
    /\ wg = 0
    /\ tasks = <<>>
    /\ ret = [resp |-> NilResponse, err |-> Pending]
    /\ issued = {}
    /\ reached = {}
    /\ invoked = [s \in Steps |-> 0]
    /\ stepErr = [s \in Steps |-> Pending]
    /\ firedAt = -1
    /\ lateStarts = 0
    /\ stalled = FALSE
    /\ lostOnEOF = 0
    /\ scanSent = ZeroScanResponse

\* checkResponse(r) is called and returns.
CheckCall ==
    /\ response.err = Pending
    /\ response' = [response EXCEPT !.err = checkResponse(response.StatusCode, response.Body)]
    /\ UNCHANGED <<validatorVars, clientVars, requestVars, ctxVars, loopVars, chanVars, respVars,
                   histVars, pc, mdo, tasks, ret>>

NextCheck == CheckCall

SpecCheck == InitCheck /\ [][NextCheck]_vars

\* ---------------------------------------------------------------- contexts
\* cancel() of a context: the first cancellation decides Err().
CancelWith(cur, e) == IF cur = Nil THEN e ELSE cur

\* The context ScanFile hands to a step: the one context created at its top.
StepCtxFresh(c) == Nil

StepCtx(c) == c

\* The timer of context.WithTimeout fires (file.go 65-66).
Deadline ==
    /\ timeoutSet /\ ctxErr = Nil /\ pc # "done"
    /\ ctxErr' = DeadlineExceeded
    /\ uploadCtxErr' = CancelWith(uploadCtxErr, DeadlineExceeded)
    /\ firedAt' = Len(tasks)
    /\ stalled' = \E i \in 1..Len(tasks) : tasks[i].phase = "do" /\ tasks[i].do.inflight
    /\ UNCHANGED <<responseVars, validatorVars, clientVars, requestVars, loopVars, chanVars, respVars,
                   issued, reached, invoked, stepErr, lateStarts, pc, mdo, tasks, ret>>

\* The caller cancels the context it passed to ScanFile.
CallerCancel ==
    /\ ctxErr = Nil /\ pc # "done"
    /\ ctxErr' = Canceled
    /\ uploadCtxErr' = CancelWith(uploadCtxErr, Canceled)
    /\ UNCHANGED <<responseVars, validatorVars, clientVars, requestVars, loopVars, chanVars, respVars, histVars,
                   pc, mdo, tasks, ret>>

\* ScanFile returns: its deferred cancel() runs (file.go 70), and so has the
\* deferred cancel() of doChunkedUpload if that was entered (file.go 111).
ReturnNoCancel(resp, err) ==
    /\ pc' = "done"
    /\ ret' = [resp |-> resp, err |-> err]
    /\ UNCHANGED <<ctxErr, uploadCtxErr>>

Return(resp, err) ==
    /\ pc' = "done"
    /\ ret' = [resp |-> resp, err |-> err]
    /\ ctxErr' = CancelWith(ctxErr, Canceled)
    /\ uploadCtxErr' = CancelWith(uploadCtxErr, Canceled)

\* ----------------------------------------------------- the ScanFile goroutine
\* Whether the step at pc passes a response shape to do() (retResp # nil).
WantResp(step) == step \in {"init", "scan"}

InDo == pc \in {"init", "finish", "scan"}

\* The do() call of initFileUpload, completeFileUpload or scanUploadedFile
\* reaches the top of its loop.
MainSend ==
    /\ InDo /\ ~mdo.done /\ ~mdo.inflight /\ ~mdo.backoff
    /\ mdo' = DoSend(mdo, retryCount)
    /\ issued' = IF mdo'.inflight THEN issued \cup {pc} ELSE issued
    /\ reached' = IF mdo'.inflight /\ StepCtx(ctxErr) = Nil THEN reached \cup {pc} ELSE reached
    /\ UNCHANGED <<responseVars, validatorVars, clientVars, requestVars, ctxVars, loopVars, chanVars, respVars,
                   invoked, stepErr, firedAt, stalled, lateStarts, pc, tasks, ret>>

\* httpClient.Do returns to that do() call; a 2xx body is decoded into the
\* shape the step passed (io.EOF of an empty body leaves the zero value).
MainReceive ==
    /\ InDo /\ mdo.inflight
    /\ \E out \in TransportOutcomes(StepCtx(ctxErr), WantResp(pc), throttling) :
         /\ mdo' = DoReceive(mdo, retryCount, StepCtx(ctxErr), out, WantResp(pc))
         /\ IF pc = "init" /\ out.status = StatusOK /\ out.body = "json"
            THEN \E f \in Sessions : fileUpload' = f
            ELSE fileUpload' = fileUpload
         /\ IF pc = "scan" /\ out.status = StatusOK /\ out.body = "json"
            THEN \E r \in ScanResponses : scanResponse' = r /\ scanSent' = r
            ELSE UNCHANGED <<scanResponse, scanSent>>
    /\ UNCHANGED <<responseVars, validatorVars, clientVars, requestVars, ctxVars, loopVars, chanVars, histVars,
                   pc, tasks, ret>>

\* That do() call starts its backoff sleep.
MainSleep ==
    /\ InDo /\ mdo.backoff
    /\ mdo' = DoSleep(mdo)
    /\ UNCHANGED <<responseVars, validatorVars, clientVars, requestVars, ctxVars, loopVars, chanVars, respVars,
                   histVars, pc, tasks, ret>>

\* ScanFile after a step returned err: the position it continues at
\* (file.go 72-87); "done" stands for return nil, err.
AfterInit(err) == IF err # Nil THEN "done" ELSE "loop"

AfterUpload(err) == IF err # Nil THEN "done" ELSE "finish"

AfterFinishIgnoreErr(err) == "scan"

AfterFinish(err) == IF err # Nil THEN "done" ELSE "scan"

\* scanUploadedFile's return values for the error of its do() call and the
\* decoded response (file.go 194-199).
ScanResultKeepResp(err, resp) == [resp |-> resp, err |-> err]

ScanResult(err, resp) ==
    IF err # Nil THEN [resp |-> NilResponse, err |-> err]
    ELSE [resp |-> resp, err |-> Nil]

\* initFileUpload returns (file.go 72-75); on success doChunkedUpload is
\* entered and creates errChan, wg, concurrencyChan and uploadCtx.
InitReturn ==
    /\ pc = "init" /\ mdo.done
    /\ stepErr' = [stepErr EXCEPT !["init"] = mdo.err]
    /\ mdo' = NewDo
    /\ IF AfterInit(mdo.err) = "done"
       THEN /\ Return(NilResponse, mdo.err)
            /\ UNCHANGED invoked
       ELSE /\ pc' = "loop"
            /\ invoked' = [invoked EXCEPT !["upload"] = @ + 1]
            /\ uploadCtxErr' = ctxErr
            /\ UNCHANGED <<ctxErr, ret>>
    /\ UNCHANGED <<responseVars, validatorVars, clientVars, requestVars, loopVars, chanVars, respVars,
                   issued, reached, firedAt, stalled, lateStarts, tasks>>

\* A send on a buffered channel holding n of cap elements does not block.
ChanHasRoomOffByOne(n, cap) == n <= cap

ChanHasRoom(n, cap) == n < cap

\* The condition of the dispatch loop (file.go 114).
MoreChunksInclusive(o, size) == o <= size

MoreChunks(o, size) == o < size

\* The loop condition holds and the send on concurrencyChan goes through
\* (file.go 114-116); the send blocks while the channel is full.
LoopAcquire ==
    /\ pc = "loop"
    /\ MoreChunks(offset, fileUpload.FileSizeBytes)
    /\ ChanHasRoom(concurrencyChan, fileUploadConcurrency)
    /\ concurrencyChan' = concurrencyChan + 1
    /\ pc' = "select"
    /\ UNCHANGED <<responseVars, validatorVars, clientVars, requestVars, ctxVars, loopVars, errChan, wg, respVars,
                   histVars, mdo, tasks, ret>>

\* The loop condition fails (file.go 114).
LoopExit ==
    /\ pc = "loop"
    /\ ~MoreChunks(offset, fileUpload.FileSizeBytes)
    /\ pc' = "wait"
    /\ UNCHANGED <<responseVars, validatorVars, clientVars, requestVars, ctxVars, loopVars, chanVars, respVars,
                   histVars, mdo, tasks, ret>>

\* The select on uploadCtx.Done() (file.go 119-123): Done() is closed once
\* the context has an error.
SelectNeverDone(uerr) == FALSE

SelectDone(uerr) == uerr # Nil

LoopSelect ==
    /\ pc = "select"
    /\ pc' = IF SelectDone(uploadCtxErr) THEN "wait" ELSE "read"
    /\ UNCHANGED <<responseVars, validatorVars, clientVars, requestVars, ctxVars, loopVars, chanVars, respVars,
                   histVars, mdo, tasks, ret>>

\* What content.Read(buf) may return for a buffer of bufLen bytes when the
\* reader still holds remaining bytes.  A "full" reader (strings.Reader,
\* bytes.Reader, os.File on a regular file) copies min(bufLen, remaining)
\* bytes and reports io.EOF alone at the end.  "any" reader does what the
\* io.Reader contract allows: up to min(bufLen, remaining) bytes with a nil
\* error, or the last bytes together with io.EOF.  Both may fail.
ReadOutcomes(kind, bufLen, remaining) ==
    IF remaining = 0
    THEN {[n |-> 0, err |-> "EOF"]}
    ELSE {[n |-> 0, err |-> "err"]} \cup
         IF kind = "full"
         THEN {[n |-> Min(bufLen, remaining), err |-> "nil"]}
         ELSE [n : 0..Min(bufLen, remaining), err : {"nil"}]
              \cup (IF remaining <= bufLen THEN {[n |-> remaining, err |-> "EOF"]} ELSE {})

\* content.Read and the branches on its result (file.go 125-134).  io.EOF
\* breaks the loop; another error returns from doChunkedUpload at once, and
\* ScanFile returns it.
LoopRead ==
    /\ pc = "read"
    /\ \E r \in ReadOutcomes(readerKind, fileUpload.ChunkSize, srcLen - srcPos) :
         /\ srcPos' = srcPos + r.n
         /\ bytesRead' = r.n
         /\ lostOnEOF' = IF r.err = "EOF" THEN r.n ELSE lostOnEOF
         /\ IF r.err = "EOF"
            THEN pc' = "wait" /\ UNCHANGED <<ctxVars, ret, stepErr>>
            ELSE IF r.err = "err"
                 THEN /\ Return(NilResponse, ReadErr)
                      /\ stepErr' = [stepErr EXCEPT !["upload"] = ReadErr]
                 ELSE pc' = "go" /\ UNCHANGED <<ctxVars, ret, stepErr>>
    /\ UNCHANGED <<responseVars, validatorVars, clientVars, requestVars, offset, chanVars, respVars,
                   issued, reached, invoked, firedAt, stalled, lateStarts, mdo, tasks>>

\* wg.Add(1), the go statement and the loop's post statement (file.go 136-165).
LoopGo ==
    /\ pc = "go"
    /\ wg' = wg + 1
    /\ tasks' = Append(tasks, NewTask(offset, bytesRead))
    /\ offset' = offset + fileUpload.ChunkSize
    /\ pc' = "loop"
    /\ lateStarts' = IF uploadCtxErr # Nil THEN lateStarts + 1 ELSE lateStarts
    /\ UNCHANGED <<responseVars, validatorVars, clientVars, requestVars, ctxVars, bytesRead, srcPos, lostOnEOF,
                   concurrencyChan, errChan, respVars, issued, reached, invoked, stepErr,
                   firedAt, stalled, mdo, ret>>

\* wg.Wait() returns, errChan is closed and received from (file.go 168-175):
\* the buffered error if there is one, else the zero value nil.
FirstErrorIgnored(ch) == Nil

FirstError(ch) == IF Len(ch) > 0 THEN Head(ch) ELSE Nil

\* wg.Wait() returns when the counter is zero.
WaitGroupSkipped(n) == TRUE

WaitGroupDone(n) == n = 0

\* doChunkedUpload returns after the wait; ScanFile goes on (file.go 77-82).
Wait ==
    /\ pc = "wait"
    /\ WaitGroupDone(wg)
    /\ stepErr' = [stepErr EXCEPT !["upload"] = FirstError(errChan)]
    /\ IF AfterUpload(FirstError(errChan)) = "done"
       THEN /\ Return(NilResponse, FirstError(errChan))
            /\ UNCHANGED invoked
       ELSE /\ pc' = "finish"
            /\ invoked' = [invoked EXCEPT !["finish"] = @ + 1]
            /\ uploadCtxErr' = CancelWith(uploadCtxErr, Canceled)
            /\ UNCHANGED <<ctxErr, ret>>
    /\ UNCHANGED <<responseVars, validatorVars, clientVars, requestVars, loopVars, chanVars, respVars,
                   issued, reached, firedAt, stalled, lateStarts, mdo, tasks>>

\* completeFileUpload returns (file.go 82-85).
FinishReturn ==
    /\ pc = "finish" /\ mdo.done
    /\ stepErr' = [stepErr EXCEPT !["finish"] = mdo.err]
    /\ mdo' = NewDo
    /\ IF AfterFinish(mdo.err) = "done"
       THEN /\ Return(NilResponse, mdo.err)
            /\ UNCHANGED invoked
       ELSE /\ pc' = "scan"
            /\ invoked' = [invoked EXCEPT !["scan"] = @ + 1]
            /\ UNCHANGED <<ctxVars, ret>>
    /\ UNCHANGED <<responseVars, validatorVars, clientVars, requestVars, loopVars, chanVars, respVars,
                   issued, reached, firedAt, stalled, lateStarts, tasks>>

\* scanUploadedFile returns and ScanFile returns its values (file.go 87).
ScanReturn ==
    /\ pc = "scan" /\ mdo.done
    /\ stepErr' = [stepErr EXCEPT !["scan"] = mdo.err]
    /\ mdo' = NewDo
    /\ Return(ScanResult(mdo.err, scanResponse).resp, ScanResult(mdo.err, scanResponse).err)
    /\ UNCHANGED <<responseVars, validatorVars, clientVars, requestVars, loopVars, chanVars, respVars,
                   issued, reached, invoked, firedAt, stalled, lateStarts, tasks>>

\* ------------------------------------------------------- the chunk goroutines
\* The select that offers err to errChan (file.go 158-161): the send goes
\* through if the buffer has room, else the default branch drops err.
TrySendOverwrite(ch, e) == <<e>>

TrySend(ch, e) == IF Len(ch) < 1 THEN Append(ch, e) ELSE ch

\* c.do(uploadCtx, req, nil) of goroutine i reaches the top of its loop.
TaskSend(i) ==
    /\ tasks[i].phase = "do" /\ ~tasks[i].do.inflight /\ ~tasks[i].do.backoff
    /\ LET d == DoSend(tasks[i].do, retryCount)
       IN  /\ tasks' = [tasks EXCEPT ![i] =
                          [@ EXCEPT !.do = IF d.done THEN NewDo ELSE d,
                                    !.phase = AfterDo(d),
                                    !.err = d.err,
                                    !.ok = d.done /\ d.err = Nil]]
           /\ issued' = IF d.inflight THEN issued \cup {"upload"} ELSE issued
           /\ reached' = IF d.inflight /\ uploadCtxErr = Nil
                         THEN reached \cup {"upload"} ELSE reached
    /\ UNCHANGED <<responseVars, validatorVars, clientVars, requestVars, ctxVars, loopVars, chanVars, respVars,
                   invoked, stepErr, firedAt, stalled, lateStarts, pc, mdo, ret>>

\* httpClient.Do returns to goroutine i.
TaskReceive(i) ==
    /\ tasks[i].phase = "do" /\ tasks[i].do.inflight
    /\ \E out \in TransportOutcomes(uploadCtxErr, FALSE, throttling) :
         LET d == DoReceive(tasks[i].do, retryCount, uploadCtxErr, out, FALSE)
         IN  tasks' = [tasks EXCEPT ![i] =
                         [@ EXCEPT !.do = d,
                                   !.phase = AfterDo(d),
                                   !.err = d.err,
                                   !.ok = d.done /\ d.err = Nil]]
    /\ UNCHANGED <<responseVars, validatorVars, clientVars, requestVars, ctxVars, loopVars, chanVars, respVars,
                   histVars, pc, mdo, ret>>

\* The do() call of goroutine i starts its backoff sleep.
TaskSleep(i) ==
    /\ tasks[i].phase = "do" /\ tasks[i].do.backoff
    /\ tasks' = [tasks EXCEPT ![i] = [@ EXCEPT !.do = DoSleep(@)]]
    /\ UNCHANGED <<responseVars, validatorVars, clientVars, requestVars, ctxVars, loopVars, chanVars, respVars,
                   histVars, pc, mdo, ret>>

\* Goroutine i offers its error to errChan (file.go 158-161).
TaskRecord(i) ==
    /\ tasks[i].phase = "errChan"
    /\ errChan' = TrySend(errChan, tasks[i].err)
    /\ tasks' = [tasks EXCEPT ![i] = [@ EXCEPT !.phase = "cancel", !.do = NewDo]]
    /\ UNCHANGED <<responseVars, validatorVars, clientVars, requestVars, ctxVars, loopVars, concurrencyChan, wg,
                   respVars, histVars, pc, mdo, ret>>

\* Goroutine i calls cancel() of uploadCtx (file.go 162).
TaskCancel(i) ==
    /\ tasks[i].phase = "cancel"
    /\ uploadCtxErr' = CancelWith(uploadCtxErr, Canceled)
    /\ tasks' = [tasks EXCEPT ![i] = [@ EXCEPT !.phase = "wgDone"]]
    /\ UNCHANGED <<responseVars, validatorVars, clientVars, requestVars, ctxErr, loopVars, chanVars, respVars,
                   histVars, pc, mdo, ret>>

\* The deferred wg.Done() of goroutine i (file.go 139).
TaskDone(i) ==
    /\ tasks[i].phase = "wgDone"
    /\ wg' = wg - 1
    /\ tasks' = [tasks EXCEPT ![i] = [@ EXCEPT !.phase = "release", !.do = NewDo]]
    /\ UNCHANGED <<responseVars, validatorVars, clientVars, requestVars, ctxVars, loopVars, concurrencyChan, errChan,
                   respVars, histVars, pc, mdo, ret>>

\* The deferred receive from concurrencyChan of goroutine i (file.go 140),
\* after which the goroutine is gone.
TaskRelease(i) ==
    /\ tasks[i].phase = "release"
    /\ concurrencyChan > 0
    /\ concurrencyChan' = concurrencyChan - 1
    /\ tasks' = [tasks EXCEPT ![i] = [@ EXCEPT !.phase = "exit", !.err = Nil]]
    /\ UNCHANGED <<responseVars, validatorVars, clientVars, requestVars, ctxVars, loopVars, errChan, wg,
                   respVars, histVars, pc, mdo, ret>>

\* --------------------------------------------------------------- the system
Next ==
    \/ Deadline
    \/ CallerCancel
    \/ MainSend
    \/ MainReceive
    \/ MainSleep
    \/ InitReturn
    \/ LoopAcquire
    \/ LoopExit
    \/ LoopSelect
    \/ LoopRead
    \/ LoopGo
    \/ Wait
    \/ FinishReturn
    \/ ScanReturn
    \/ \E i \in 1..Len(tasks) : TaskSend(i)
    \/ \E i \in 1..Len(tasks) : TaskReceive(i)
    \/ \E i \in 1..Len(tasks) : TaskSleep(i)
    \/ \E i \in 1..Len(tasks) : TaskRecord(i)
    \/ \E i \in 1..Len(tasks) : TaskCancel(i)
    \/ \E i \in 1..Len(tasks) : TaskDone(i)
    \/ \E i \in 1..Len(tasks) : TaskRelease(i)

Spec == Init /\ [][Next]_vars

\* ---------------------------------------------------------------- scheduling
\* A step of the ScanFile goroutine, the dispatch loop included.
ScanFileStep ==
    \/ MainSend \/ MainReceive \/ MainSleep \/ InitReturn
    \/ LoopAcquire \/ LoopExit \/ LoopSelect \/ LoopRead \/ LoopGo \/ Wait
    \/ FinishReturn \/ ScanReturn

\* A step of chunk goroutine i.
TaskStep(i) ==
    /\ i \in 1..Len(tasks)
    /\ \/ TaskSend(i) \/ TaskReceive(i) \/ TaskSleep(i) \/ TaskRecord(i)
       \/ TaskCancel(i) \/ TaskDone(i) \/ TaskRelease(i)

\* A step of the program, as opposed to the deadline and the caller.
ProgramStep == ScanFileStep \/ \E i \in 1..Len(tasks) : TaskStep(i)

\* The calls explored for termination: a request with a timeout (its
\* deadline may fire or not, so the calls without one are among them), a
\* reader that fills every buffer, and a server that may answer any status,
\* so that chunk uploads go through the retry loop.
InitFair == Init /\ timeoutSet = TRUE /\ throttling = TRUE

\* The Go scheduler runs some goroutine while one can run, and every
\* transport call eventually returns (MainReceive, TaskReceive).  The
\* deadline and the caller's cancellation are free to happen or not.
FairSpec == InitFair /\ [][Next]_vars /\ WF_vars(ProgramStep)

\* ------------------------------------------------------------------ claims
TaskIds == 1..Len(tasks)
LiveDos == {mdo} \cup {tasks[i].do : i \in TaskIds}
RunningTasks == {i \in TaskIds : Running(tasks[i])}
Failed(e) == e # Nil /\ e # Pending

\* C1: the number of chunk goroutines that have been started and have not yet
\* exited never exceeds the client's fileUploadConcurrency.
C1_ConcurrencyBound == Cardinality(RunningTasks) <= fileUploadConcurrency

\* Two goroutines are alive under a budget of two while the dispatch loop
\* stands before the send on concurrencyChan with a further chunk to go.
C1_Witness ==
    /\ fileUploadConcurrency = 2
    /\ Cardinality(RunningTasks) = 2
    /\ pc = "loop" /\ offset < fileUpload.FileSizeBytes

\* The steps after s in the order of ScanFile.
LaterSteps(s) ==
    IF s = "init" THEN {"upload", "finish", "scan"}
    ELSE IF s = "upload" THEN {"finish", "scan"}
    ELSE IF s = "finish" THEN {"scan"}
    ELSE {}

\* C2: once a step has returned an error, ScanFile has returned that error
\* with a nil response, and no later step was invoked or has issued a request.
C2_ErrorAbortsLaterSteps ==
    \A s \in Steps :
        Failed(stepErr[s]) =>
            /\ pc = "done"
            /\ ret = [resp |-> NilResponse, err |-> stepErr[s]]
            /\ \A l \in LaterSteps(s) : l \notin issued /\ invoked[l] = 0

\* completeFileUpload failed after chunks were uploaded.
C2_Witness == Failed(stepErr["finish"]) /\ Len(tasks) >= 2

\* C3: the steps are sequential.  A chunk request is issued only after
\* initFileUpload returned nil; the finish request only after doChunkedUpload
\* returned nil and every dispatched goroutine has returned from its upload
\* and called wg.Done(); the scan request only after completeFileUpload
\* returned nil; initiate, finish and scan are invoked at most once.
C3_StrictlySequential ==
    /\ "upload" \in issued => stepErr["init"] = Nil
    /\ "finish" \in issued =>
          /\ stepErr["upload"] = Nil
          /\ \A i \in TaskIds : Waited(tasks[i])
    /\ "scan" \in issued => stepErr["finish"] = Nil
    /\ InDo => \A i \in TaskIds : tasks[i].phase # "do"
    /\ \A s \in {"init", "finish", "scan"} : invoked[s] <= 1

\* The scan request was issued after three chunks were dispatched.
C3_Witness == "scan" \in issued /\ Len(tasks) = 3

\* C4: a do() call never makes more than retryCount + 1 transport calls, and
\* a call whose every attempt was answered 429 has made exactly
\* retryCount + 1 of them and returns an error.
C4_RetryCeiling ==
    \A d \in LiveDos :
        /\ d.calls <= retryCount + 1
        /\ d.done /\ d.calls > 0 /\ d.n429 = d.calls =>
              d.calls = retryCount + 1 /\ d.err # Nil

\* A do() call has returned after being answered 429 six times.
C4_Witness ==
    \E d \in LiveDos : d.done /\ d.n429 = DefaultRetryCount + 1 /\ d.calls = d.n429

\* C5 as claimed: when the answers before it were all 429 and an attempt is
\* answered 2xx, do() has made (number of 429 answers) + 1 attempts and
\* returns nil.
C5_SuccessAfterRetries_Claimed ==
    \A d \in LiveDos :
        d.last = StatusOK => d.done /\ d.calls = d.n429 + 1 /\ d.err = Nil

\* C5 amended: ... and returns nil, unless a response shape was requested
\* and the 2xx body cannot be decoded, in which case it returns the decoding
\* error after the same number of attempts.  Only the do() calls of the
\* ScanFile goroutine in init and scan request a shape.
C5_SuccessAfterRetries ==
    /\ \A d \in LiveDos : d.last = StatusOK => d.done /\ d.calls = d.n429 + 1
    /\ \A i \in TaskIds : tasks[i].do.last = StatusOK => tasks[i].do.err = Nil
    /\ mdo.last = StatusOK =>
          IF WantResp(pc) /\ mdo.lastBody = "bad"
          THEN mdo.err = DecodeErr
          ELSE mdo.err = Nil

\* A do() call returned nil on its last permitted attempt, after
\* retryCount answers of 429.
C5_Witness ==
    \E d \in LiveDos :
        d.done /\ d.last = StatusOK /\ d.n429 = DefaultRetryCount /\ d.err = Nil

\* C6: a non-2xx answer other than 429 ends the do() call at once with the
\* structured error of that answer: the only sleeps and further attempts of
\* the call are those that followed its 429 answers.
C6_TerminalErrorNoRetry ==
    \A d \in LiveDos :
        d.last \in {StatusBadRequest, StatusInternalServerError} =>
            /\ d.done
            /\ d.err = StructuredError(d.last)
            /\ d.sleeps = d.n429
            /\ d.calls = d.n429 + 1

\* A do() call was answered 400 with attempts left, after two 429 answers.
C6_Witness ==
    \E d \in LiveDos : d.last = StatusBadRequest /\ d.n429 = 2 /\ d.done

\* The transport call of do record d returns in this step.
Answered(d, e) == d.inflight /\ ~e.inflight

\* The step condition of C7: once the deadline of ScanFile's context has
\* fired, every transport call that returns, in any step and in any chunk
\* goroutine, makes its do()
\* call return a cancellation error (no step and no attempt runs under a
\* deadline of its own), and ScanFile returns an error unless no transport
\* call was pending or still to come when the deadline fired, that is, the
\* do() call of scanUploadedFile had already returned.
C7_StepAfterDeadline ==
    ctxErr = DeadlineExceeded =>
        /\ Answered(mdo, mdo') => mdo'.done /\ mdo'.err = DeadlineExceeded
        /\ \A i \in TaskIds :
              Answered(tasks[i].do, tasks'[i].do) =>
                  tasks'[i].do.done /\ tasks'[i].err.kind = "ctx"
        /\ pc # "done" /\ pc' = "done" /\ ~(pc = "scan" /\ mdo.done) => Failed(ret'.err)

\* C7: every step of every behaviour keeps to this: the one deadline created
\* at the top of ScanFile governs all four steps and every chunk goroutine.
C7_SingleDeadline == [][C7_StepAfterDeadline]_vars

\* The deadline fired after chunks had been dispatched; the finish request
\* was refused with the deadline's error and ScanFile returned that error.
C7_Witness ==
    /\ ctxErr = DeadlineExceeded
    /\ pc = "done"
    /\ ret.err = DeadlineExceeded
    /\ stepErr["finish"] = DeadlineExceeded
    /\ Len(tasks) >= 1

\* C8 as claimed: if a chunk request was in flight when the deadline fired,
\* ScanFile returns a cancellation error, no goroutine is dispatched after
\* the deadline fired, and neither finish nor scan is invoked.
C8_StallCancels_Claimed ==
    stalled /\ pc = "done" =>
        /\ ret.err.kind = "ctx"
        /\ Len(tasks) = firedAt
        /\ invoked["finish"] = 0 /\ invoked["scan"] = 0

\* C8 amended: ScanFile returns a non-nil error (the error first recorded,
\* which need not be the cancellation error), at most one goroutine is
\* dispatched after the deadline fired (the one whose check of
\* uploadCtx.Done() had passed before) and its upload does not succeed, and
\* neither finish nor scan is invoked or issues a request.
C8_StallCancels ==
    /\ stalled => Len(tasks) <= firedAt + 1
    /\ stalled => \A i \in TaskIds : i > firedAt => ~tasks[i].ok
    /\ stalled /\ pc = "done" =>
          /\ Failed(ret.err)
          /\ invoked["finish"] = 0 /\ invoked["scan"] = 0
          /\ "finish" \notin issued /\ "scan" \notin issued

\* A goroutine was dispatched after the deadline had fired with a chunk
\* request in flight, and ScanFile returned.
C8_Witness == stalled /\ pc = "done" /\ Len(tasks) = firedAt + 1

\* The number of chunks of the plan of a session.
PlanCount(f) ==
    IF f.FileSizeBytes <= 0 THEN 0
    ELSE (f.FileSizeBytes + f.ChunkSize - 1) \div f.ChunkSize

\* C9: whenever the finish request has been sent under a live context or
\* ScanFile has returned success, and the content reader holds at least
\* FileSizeBytes bytes, every chunk of the plan was dispatched and its upload
\* returned nil.
C9_NoPartialSuccess ==
    /\ srcLen >= fileUpload.FileSizeBytes
    /\ "finish" \in reached \/ (pc = "done" /\ ret.err = Nil)
    => /\ Len(tasks) = PlanCount(fileUpload)
       /\ \A i \in TaskIds : tasks[i].ok

\* C10: ScanFile returns either the response decoded by scanUploadedFile
\* (what the server wrote, the zero value for an empty body) with a nil error
\* after all four steps returned nil, or a nil response with an error; a
\* failed scan step gives a nil response with the error of that step.
C10_ResultOrError ==
    pc = "done" =>
        /\ \/ /\ ret.err = Nil
              /\ ret.resp = scanSent /\ ret.resp # NilResponse
              /\ \A s \in Steps : stepErr[s] = Nil
           \/ /\ Failed(ret.err)
              /\ ret.resp = NilResponse
        /\ (\A s \in Steps : stepErr[s] = Nil) => ret.err = Nil
        /\ Failed(stepErr["scan"]) =>
              ret = [resp |-> NilResponse, err |-> stepErr["scan"]]

\* ScanFile returned the second of the server's answers after two chunks.
C10_Witness ==
    /\ pc = "done" /\ ret.err = Nil
    /\ ret.resp = [ID |-> "f2", Message |-> "queued"]
    /\ Len(tasks) = 2

\* doChunkedUpload has just returned nil under a context that is still live
\* (no cancellation and no deadline reached the dispatch loop), for a session
\* with a positive chunk size and a content reader holding at least
\* FileSizeBytes bytes.  Every goroutine it dispatched was answered 2xx, else
\* errChan would hold an error.
UploadedUncancelled ==
    /\ pc = "finish" /\ ctxErr = Nil
    /\ fileUpload.ChunkSize > 0
    /\ srcLen >= fileUpload.FileSizeBytes

\* C11: under these conditions doChunkedUpload has dispatched exactly
\* ceil(FileSizeBytes / ChunkSize) goroutines, the i-th of them with offset
\* (i - 1) * ChunkSize, so each offset below FileSizeBytes exactly once.
C11_ExactDispatch ==
    UploadedUncancelled =>
        /\ Len(tasks) = PlanCount(fileUpload)
        /\ \A i \in TaskIds : tasks[i].o = (i - 1) * fileUpload.ChunkSize

\* The number of bytes carried by the first n dispatched goroutines.
RECURSIVE SumLen(_)
SumLen(n) == IF n = 0 THEN 0 ELSE SumLen(n - 1) + tasks[n].len

\* C12: for a session with a positive chunk size and a content reader holding
\* at least FileSizeBytes bytes, the (offset, length) ranges of the dispatched
\* chunks are contiguous from 0 and do not overlap, every length is at most
\* ChunkSize, only the last is shorter, the last is FileSizeBytes - offset
\* when that is less than ChunkSize, and once doChunkedUpload has returned nil
\* under a live context the lengths sum to FileSizeBytes.
C12_RangesCoverExactly ==
    fileUpload.ChunkSize > 0 /\ srcLen >= fileUpload.FileSizeBytes =>
        /\ \A i \in TaskIds :
              /\ tasks[i].o = SumLen(i - 1)
              /\ tasks[i].len <= fileUpload.ChunkSize
              /\ i < Len(tasks) => tasks[i].len = fileUpload.ChunkSize
              /\ fileUpload.FileSizeBytes - tasks[i].o < fileUpload.ChunkSize =>
                    tasks[i].len = fileUpload.FileSizeBytes - tasks[i].o
        /\ UploadedUncancelled => SumLen(Len(tasks)) = fileUpload.FileSizeBytes

\* Goroutine i passes the select on errChan in this step.
Offers(i) == tasks[i].phase = "errChan" /\ tasks'[i].phase # "errChan"

\* The step condition of C13.  errChan never holds more than one error and,
\* once it holds one, never changes; it is written only by a failing
\* goroutine passing its select while errChan is empty, with that goroutine's
\* error; a failing goroutine that finds it full passes all the same (its
\* select is never blocked) and leaves it as it is; and when doChunkedUpload
\* returns after wg.Wait() it returns the error errChan holds, or nil when
\* errChan is empty.
C13_Step ==
    /\ Len(errChan') <= 1
    /\ errChan # <<>> => errChan' = errChan
    /\ errChan' # errChan => \E i \in TaskIds : Offers(i) /\ errChan' = <<tasks[i].err>>
    /\ \A i \in TaskIds :
          /\ tasks[i].phase = "errChan" => Failed(tasks[i].err) /\ ENABLED TaskRecord(i)
          /\ Offers(i) /\ errChan = <<>> => errChan' = <<tasks[i].err>>
    /\ pc = "wait" /\ pc' # "wait" =>
          /\ stepErr'["upload"] = FirstError(errChan)
          /\ FirstError(errChan) # Nil => pc' = "done" /\ ret'.err = Head(errChan)
          /\ FirstError(errChan) = Nil => pc' = "finish"

\* C13: every step of every behaviour keeps to this (first write wins).
C13_FirstErrorWins == [][C13_Step]_vars

\* Two goroutines failed with different errors; errChan holds the error of
\* one, the other's was dropped, and doChunkedUpload returned the one held.
C13_Witness ==
    /\ pc = "done" /\ Len(errChan) = 1
    /\ stepErr["upload"] = Head(errChan) /\ ret.err = Head(errChan)
    /\ \E i \in TaskIds :
          tasks[i].phase = "release" /\ Failed(tasks[i].err) /\ tasks[i].err # Head(errChan)

\* C14: once doChunkedUpload has returned, on whatever path, every goroutine
\* it dispatched has finished (has returned from its upload and called
\* wg.Done()); none is still running.
C14_ReturnsAfterAllTasks ==
    stepErr["upload"] # Pending => \A i \in TaskIds : Waited(tasks[i])

\* C15: when uploadCtx is done (cancel() was called, the caller cancelled or
\* the deadline fired) and the dispatch loop stands at the send on
\* concurrencyChan with a chunk still to dispatch, the loop can take its step:
\* the cancellation itself lets it through, whatever concurrencyChan holds.
C15_AcquireObservesCancel ==
    pc = "loop" /\ offset < fileUpload.FileSizeBytes /\ uploadCtxErr # Nil =>
        ENABLED LoopAcquire

\* ScanFile is inside doChunkedUpload.
InUpload == pc \in {"loop", "select", "read", "go", "wait"}

\* A step of doChunkedUpload: of its dispatch loop or of a chunk goroutine.
UploadStep ==
    \/ LoopAcquire \/ LoopExit \/ LoopSelect \/ LoopRead \/ LoopGo \/ Wait
    \/ \E i \in TaskIds : TaskStep(i)

\* C16: while doChunkedUpload has not returned, its dispatch loop or one of
\* its goroutines can take a step (no deadlock), and, every transport call
\* eventually returning and every goroutine eventually being run,
\* doChunkedUpload eventually returns.
C16_NoDeadlock ==
    /\ [](InUpload => ENABLED UploadStep)
    /\ InUpload ~> ~InUpload

\* The dispatch loop is blocked on the send to concurrencyChan, which two
\* running goroutines fill; only they can step.
C16_Witness ==
    /\ pc = "loop" /\ offset < fileUpload.FileSizeBytes
    /\ fileUploadConcurrency = 2 /\ concurrencyChan = 2
    /\ ~ENABLED ScanFileStep
    /\ uploadCtxErr # Nil

\* The transport call of do record d fails in this step (httpClient.Do
\* returned an error and no response), leaving record e, under a context in
\* state c: the call returns at once, without a sleep or a further attempt,
\* with c's error if c is done and with the transport's error otherwise.
FailsWithoutRetry(d, e, c) ==
    Answered(d, e) /\ e.last = NoStatus =>
        /\ e.done
        /\ e.attempt = d.attempt /\ e.calls = d.calls /\ e.sleeps = d.sleeps
        /\ e.err = IF c # Nil THEN c ELSE TransportErr

\* The step condition of C17, for the do() calls of the ScanFile goroutine
\* (under ScanFile's context) and of every chunk goroutine (under uploadCtx).
C17_Step ==
    /\ FailsWithoutRetry(mdo, mdo', ctxErr)
    /\ \A i \in TaskIds :
          /\ FailsWithoutRetry(tasks[i].do, tasks'[i].do, uploadCtxErr)
          /\ Answered(tasks[i].do, tasks'[i].do) /\ tasks'[i].do.last = NoStatus =>
                tasks'[i].err = tasks'[i].do.err /\ tasks'[i].phase = "errChan"

\* C17: a failed transport call is never retried; do() returns the
\* context's error if the context is done at that moment, else the raw
\* transport error.
C17_TransportFailureNoRetry == [][C17_Step]_vars

\* A do() call returned the deadline's error from its second attempt: the
\* transport call failed with attempts left and was not retried.
C17_Witness ==
    \E d \in LiveDos :
          d.done /\ d.last = NoStatus /\ d.calls = 2 /\ d.err = DeadlineExceeded

\* C18: do() never returns the sentinel errRetryable429: no do() call, no
\* step, no goroutine, errChan or ScanFile holds it as a returned error; and
\* a do() call whose latest answer is 429 and which has returned used its last
\* permitted attempt and returned the structured error of that answer, the
\* same value a 429 gets from checkResponse.
C18_Final429IsStructured ==
    /\ \A d \in LiveDos :
          /\ d.done => d.err # errRetryable429
          /\ d.done /\ d.last = StatusTooManyRequests =>
                /\ d.calls = retryCount + 1 /\ d.n429 >= 1
                /\ d.err = StructuredError(StatusTooManyRequests)
                /\ d.err = checkResponse(StatusTooManyRequests, NoBody)
          /\ ~d.done /\ ~d.inflight /\ d.last = StatusTooManyRequests =>
                d.attempt <= retryCount + 1
    /\ \A i \in TaskIds : tasks[i].err # errRetryable429
    /\ \A s \in Steps : stepErr[s] # errRetryable429
    /\ ret.err # errRetryable429
    /\ \A k \in 1..Len(errChan) : errChan[k] # errRetryable429

\* A chunk goroutine used all its attempts on 429 answers, and ScanFile
\* returned the structured error of the last one.
C18_Witness ==
    /\ pc = "done"
    /\ ret.err = StructuredError(StatusTooManyRequests)
    /\ stepErr["upload"] = StructuredError(StatusTooManyRequests)

\* C20: for a session with a positive chunk size, whatever the content reader
\* does, every dispatched goroutine carries at least one byte.
C20_NoEmptyChunk ==
    fileUpload.ChunkSize > 0 => \A i \in TaskIds : tasks[i].len >= 1

\* An option that fails: OptionFileUploadConcurrency(n) with n outside [1,100].
Fails(o) ==
    o.kind = "FileUploadConcurrency" /\ ~(1 <= o.n /\ o.n <= MaxFileUploadConcurrency)

\* The position of the first failing option passed to NewClient, 0 if none.
FirstFailing ==
    IF \E k \in 1..Len(options) : Fails(options[k])
    THEN CHOOSE k \in 1..Len(options) :
            Fails(options[k]) /\ \A j \in 1..(k - 1) : ~Fails(options[j])
    ELSE 0

\* The key and the concurrency the first n options ask for.
RECURSIVE KeyAfter(_)
KeyAfter(n) ==
    IF n = 0 THEN envKey
    ELSE IF options[n].kind = "APIKey" THEN options[n].key ELSE KeyAfter(n - 1)

RECURSIVE ConcurrencyAfter(_)
ConcurrencyAfter(n) ==
    IF n = 0 THEN DefaultFileUploadConcurrency
    ELSE IF options[n].kind = "FileUploadConcurrency" THEN options[n].n
         ELSE ConcurrencyAfter(n - 1)

\* C19: NewClient issues no request.  It returns nil and an error exactly
\* when an option fails or the key the options (else the environment) leave
\* is empty.  OptionFileUploadConcurrency(n) fails exactly for n outside
\* [1,100], and then NewClient returns at that option with the concurrency
\* as the options before it left it; every n inside is taken over.  A client
\* built from key options alone has concurrency 1 and retry count 5.
C19_NewClientValidates ==
    /\ issued = {} /\ reached = {} /\ ~mdo.inflight /\ tasks = <<>>
    /\ retryCount = DefaultRetryCount
    /\ created = Constructing =>
          /\ \A k \in 1..applied : ~Fails(options[k])
          /\ fileUploadConcurrency = ConcurrencyAfter(applied)
    /\ created # Constructing =>
          /\ created.client <=> created.err = Nil
          /\ ~created.client <=> (FirstFailing > 0 \/ KeyAfter(Len(options)) = "")
          /\ FirstFailing > 0 =>
                /\ created = [client |-> FALSE, err |-> errInvalidFileUploadConcurrency]
                /\ applied = FirstFailing
                /\ fileUploadConcurrency = ConcurrencyAfter(FirstFailing - 1)
          /\ FirstFailing = 0 /\ KeyAfter(Len(options)) = "" =>
                created = [client |-> FALSE, err |-> errMissingAPIKey]
          /\ created.client =>
                /\ apiKey = KeyAfter(Len(options)) /\ apiKey # ""
                /\ fileUploadConcurrency = ConcurrencyAfter(Len(options))
                /\ fileUploadConcurrency \in 1..MaxFileUploadConcurrency
                /\ (\A k \in 1..Len(options) : options[k].kind = "APIKey") =>
                      fileUploadConcurrency = DefaultFileUploadConcurrency

\* NewClient(OptionFileUploadConcurrency(100), OptionFileUploadConcurrency(101), ...)
\* returned the error of the second option, the concurrency still 100.
C19_Witness ==
    /\ created = [client |-> FALSE, err |-> errInvalidFileUploadConcurrency]
    /\ applied = 2 /\ Len(options) = 3
    /\ options[2].kind = "FileUploadConcurrency"
    /\ options[2].n = MaxFileUploadConcurrency + 1
    /\ fileUploadConcurrency = MaxFileUploadConcurrency

\* The step condition of C21: in a session of zero bytes the dispatch loop
\* never passes its condition, so it neither acquires a unit nor reads the
\* content nor starts a goroutine, and doChunkedUpload returns nil.
C21_Step ==
    fileUpload.FileSizeBytes = 0 /\ InUpload =>
        /\ pc' \in {"loop", "wait", "finish"}
        /\ srcPos' = srcPos /\ bytesRead' = bytesRead
        /\ concurrencyChan' = concurrencyChan /\ tasks' = tasks
        /\ pc' = "finish" => stepErr'["upload"] = Nil

\* C21: a session of zero bytes dispatches no goroutine and reads nothing
\* (every step keeps to C21_Step), doChunkedUpload returns nil whatever the
\* context, and ScanFile goes on to completeFileUpload and, when that
\* returns nil, to scanUploadedFile.
C21_EmptyFile ==
    /\ [][C21_Step]_vars
    /\ [](fileUpload.FileSizeBytes = 0 /\ invoked["upload"] = 1 /\ ~InUpload =>
            /\ tasks = <<>> /\ srcPos = 0 /\ concurrencyChan = 0
            /\ stepErr["upload"] = Nil
            /\ invoked["finish"] = 1
            /\ stepErr["finish"] = Nil => invoked["scan"] = 1)

\* A session of zero bytes with a positive chunk size over a reader that
\* does hold bytes: ScanFile returned success without reading any of them.
C21_Witness ==
    /\ fileUpload = [FileSizeBytes |-> 0, ChunkSize |-> 2]
    /\ srcLen = 3 /\ srcPos = 0 /\ tasks = <<>>
    /\ pc = "done" /\ ret.err = Nil
    /\ "finish" \in reached /\ "scan" \in reached

\* ----------------------------------------------------------------------
\* The request the validator was given, as the caller sees it.
Validated == webhook.ret.err # Pending
RequestTimeParses == ParseInt(webhook.time).err = Nil
RequestAge == webhook.now - ParseInt(webhook.time).value
SignatureMatches ==
    webhook.signature = Hmac(webhook.secret, webhook.time \o <<":">> \o webhook.body)
SomeInputEmpty ==
    webhook.body = <<>> \/ webhook.signature = EmptySignature \/ webhook.time = <<>>

\* C22: Validate returns false for every request whose timestamp differs
\* from the time of receipt by more than the threshold, whether the timestamp
\* lies before or after the time of receipt, and whatever the signature.
C22_RejectsOutsideThreshold ==
    Validated /\ RequestTimeParses
        /\ (RequestAge > webhook.threshold \/ 0 - RequestAge > webhook.threshold)
        => webhook.ret.valid = FALSE

\* C23: Validate returns true only if body, signature and timestamp are
\* non-empty, the timestamp parses and the signature is the keyed hash of
\* timestamp ":" body under the signing secret; it returns false without an
\* error for an empty input and for a mismatching signature whose timestamp
\* parses; it returns an error only when the timestamp does not parse.
C23_ValidateContract ==
    Validated =>
        /\ webhook.ret.valid =>
              ~SomeInputEmpty /\ RequestTimeParses /\ SignatureMatches
        /\ SomeInputEmpty => webhook.ret = [valid |-> FALSE, err |-> Nil]
        /\ ~SignatureMatches /\ RequestTimeParses =>
              webhook.ret = [valid |-> FALSE, err |-> Nil]
        /\ webhook.ret.err # Nil => ~RequestTimeParses

\* C23 as stated: a mismatching signature gives false without an error,
\* whatever the timestamp.
C23_Claimed ==
    Validated =>
        /\ webhook.ret.valid =>
              ~SomeInputEmpty /\ RequestTimeParses /\ SignatureMatches
        /\ SomeInputEmpty \/ ~SignatureMatches =>
              webhook.ret = [valid |-> FALSE, err |-> Nil]
        /\ webhook.ret.err # Nil => ~RequestTimeParses

C23_Witness ==
    /\ Validated
    /\ webhook.body = <<"b">> /\ webhook.time = <<"1">>
    /\ webhook.signature = Hmac("another secret", <<"1", ":", "b">>)
    /\ RequestAge <= webhook.threshold
    /\ webhook.ret = [valid |-> FALSE, err |-> Nil]

\* ----------------------------------------------------------------------
\* The sequence of (offset, length) pairs doChunkedUpload dispatched, and the
\* sequence that totalSize and chunkSize alone determine.
Dispatched == [i \in TaskIds |-> [o |-> tasks[i].o, len |-> tasks[i].len]]
ChunkPlan(totalSize, chunkSize) ==
    [i \in 1..((totalSize + chunkSize - 1) \div chunkSize) |->
        [o |-> (i - 1) * chunkSize,
         len |-> Min(chunkSize, totalSize - (i - 1) * chunkSize)]]

\* C24: with a content reader holding at least FileSizeBytes bytes and every
\* upload succeeding, the offsets and lengths dispatched are the same in
\* every run with the same FileSizeBytes and ChunkSize, whatever the
\* concurrency and the interleaving: they are the plan of these two numbers.
C24_PlanIsPure ==
    UploadedUncancelled =>
        Dispatched = ChunkPlan(fileUpload.FileSizeBytes, fileUpload.ChunkSize)

\* ----------------------------------------------------------------------
\* Goroutine i has failed: it has offered its error to errChan, and past
\* phase "cancel" it has cancelled uploadCtx as well.
HasFailed(i) ==
    ~tasks[i].ok /\ tasks[i].phase \in {"cancel", "wgDone", "release", "exit"}

\* C25: once uploadCtx is done (a failed goroutine cancelled it, or the
\* caller's context ended) the dispatch loop starts at most one more
\* goroutine, the one whose select on uploadCtx.Done() had already been
\* passed; the upload of that goroutine does not succeed, and after it the
\* loop does not get to another Read or go statement.
C25_AtMostOneLateStart ==
    /\ lateStarts <= 1
    /\ lateStarts = 1 => ~tasks[Len(tasks)].ok /\ pc \notin {"read", "go"}

\* C25 as stated: no goroutine is started once one has failed.
C25_Claimed ==
    [][(\E i \in TaskIds : HasFailed(i)) => Len(tasks') = Len(tasks)]_vars

\* A goroutine failed under a live caller context and cancelled uploadCtx,
\* one goroutine was started after that, and doChunkedUpload returned.
C25_Witness ==
    /\ lateStarts = 1 /\ ctxErr = Nil /\ pc = "wait" /\ wg = 0
    /\ \E i \in TaskIds : i < Len(tasks) /\ HasFailed(i) /\ tasks[i].phase = "exit"

\* ----------------------------------------------------------------------
\* C26: a goroutine whose c.do returned an error first offers the error to
\* errChan, then cancels uploadCtx, and only then runs its deferred
\* wg.Done(); so a failed goroutine past its cancel() implies that uploadCtx
\* is done and errChan holds an error.
C26_Step ==
    \A i \in TaskIds :
        /\ tasks[i].phase = "do" /\ tasks'[i].phase # "do" /\ tasks'[i].err # Nil =>
              tasks'[i].phase = "errChan"
        /\ tasks[i].phase = "errChan" /\ tasks'[i].phase # "errChan" =>
              tasks'[i].phase = "cancel" /\ Len(errChan') = 1
        /\ tasks[i].phase = "cancel" /\ tasks'[i].phase # "cancel" =>
              tasks'[i].phase = "wgDone" /\ uploadCtxErr' # Nil
        /\ tasks'[i].phase \in {"errChan", "cancel"} => wg' >= 1

C26_FailureRecordsThenCancels ==
    /\ [][C26_Step]_vars
    /\ [](\A i \in TaskIds :
            /\ tasks[i].phase = "cancel" => Len(errChan) = 1
            /\ HasFailed(i) /\ tasks[i].phase # "cancel" =>
                  uploadCtxErr # Nil /\ Len(errChan) = 1 /\ Failed(Head(errChan)))

\* Two goroutines failed under a live caller context: both have cancelled,
\* neither has been waited for yet, and errChan holds one error.
C26_Witness ==
    /\ ctxErr = Nil /\ pc \in {"loop", "wait"} /\ uploadCtxErr = Canceled
    /\ Len(tasks) = 2 /\ Len(errChan) = 1
    /\ \A i \in TaskIds : HasFailed(i) /\ tasks[i].phase = "wgDone"

\* ----------------------------------------------------------------------
\* The do() call of goroutine i calls time.Sleep in this step.
StartsBackoff(i) == tasks[i].do.backoff /\ ~tasks'[i].do.backoff

\* The step condition of C27, for a step taken when uploadCtx is done.
C27_Step ==
    uploadCtxErr # Nil =>
        \A i \in TaskIds :
            /\ ~StartsBackoff(i)
            /\ tasks[i].phase = "do" /\ tasks'[i].phase # "do" =>
                  Failed(tasks'[i].err) /\ ~tasks'[i].ok
            /\ tasks[i].ok => tasks'[i].ok /\ tasks'[i].phase \in {"wgDone", "release", "exit"}

\* C27: once uploadCtx is done, no goroutine starts another backoff sleep,
\* every goroutine still in c.do returns an error from it, and a goroutine
\* whose upload had succeeded stays successful and offers no error.
C27_SiblingsAbandonRetries == [][C27_Step]_vars

\* ----------------------------------------------------------------------
\* The step condition of C28.  content.Read is the only statement that moves
\* srcPos; it is a step of the dispatch loop, for the chunk at the loop's
\* current offset, which no goroutine has been started for; a goroutine is
\* started by the loop after that Read, with the offset and the bytes of it,
\* and the offset only moves forward, by ChunkSize, when the goroutine starts.
C28_Step ==
    /\ srcPos' # srcPos \/ bytesRead' # bytesRead =>
          /\ pc = "read" /\ tasks' = tasks /\ offset' = offset
          /\ srcPos' = srcPos + bytesRead'
          /\ \A i \in TaskIds : tasks[i].o < offset
    /\ Len(tasks') # Len(tasks) =>
          /\ pc = "go" /\ Len(tasks') = Len(tasks) + 1
          /\ SubSeq(tasks', 1, Len(tasks)) = tasks
          /\ tasks'[Len(tasks')].o = offset /\ tasks'[Len(tasks')].len = bytesRead
          /\ tasks'[Len(tasks')].phase = "do" /\ tasks'[Len(tasks')].do = NewDo
          /\ srcPos' = srcPos
    /\ offset' # offset =>
          Len(tasks') = Len(tasks) + 1 /\ offset' = offset + fileUpload.ChunkSize
    /\ \A i \in TaskIds : tasks'[i].o = tasks[i].o /\ tasks'[i].len = tasks[i].len

\* C28: the content reader is read by the dispatch loop only, one Read at a
\* time and in ascending order of offset, and the Read of a chunk has
\* returned before the goroutine of that chunk is started.
C28_SingleReader ==
    /\ [][C28_Step]_vars
    /\ [](pc \in {"read", "go"} =>
             offset = Len(tasks) * fileUpload.ChunkSize /\ offset < fileUpload.FileSizeBytes)

\* The Read of the second chunk has returned while the first chunk's request
\* is in flight in its goroutine.
C28_Witness ==
    /\ pc = "go" /\ fileUpload.ChunkSize = 1 /\ offset = 1
    /\ srcPos = 2 /\ bytesRead = 1
    /\ Len(tasks) = 1 /\ tasks[1].phase = "do" /\ tasks[1].do.inflight

\* ----------------------------------------------------------------------
\* content.Read returns io.EOF in this step: the only way from the Read to
\* the wait.
ReadsEOF == pc = "read" /\ pc' = "wait"

\* The dispatch loop has ended before the plan was exhausted.
EndedEarly == pc = "wait" /\ offset < fileUpload.FileSizeBytes

\* The step condition of C29.
C29_Step ==
    /\ ReadsEOF =>
          /\ offset < fileUpload.FileSizeBytes
          /\ errChan' = errChan /\ tasks' = tasks /\ wg' = wg
          /\ stepErr' = stepErr /\ ret' = ret /\ uploadCtxErr' = uploadCtxErr
    /\ EndedEarly => Len(tasks') = Len(tasks) /\ srcPos' = srcPos
    /\ EndedEarly /\ pc' # "wait" =>
          /\ \A i \in TaskIds : Waited(tasks[i])
          /\ stepErr'["upload"] = Nil <=> \A i \in TaskIds : tasks[i].ok
          /\ stepErr'["upload"] = Nil <=> pc' = "finish"
          /\ stepErr'["upload"] # Nil => pc' = "done" /\ ret'.err = stepErr'["upload"]

\* C29: when content.Read reports io.EOF before offset has reached
\* FileSizeBytes, the loop ends without an error being recorded for it and
\* without another goroutine or Read, doChunkedUpload waits for every
\* goroutine it started, and it returns nil exactly if none of them failed.
C29_EarlyEOFStopsCleanly == [][C29_Step]_vars

\* doChunkedUpload returned nil under a live context with a part of the plan
\* not dispatched: the reader held one byte of a file of three.
C29_Witness ==
    /\ pc = "finish" /\ ctxErr = Nil /\ stepErr["upload"] = Nil
    /\ fileUpload = [FileSizeBytes |-> 3, ChunkSize |-> 1] /\ srcLen = 1
    /\ offset = 1 /\ Len(tasks) = 1 /\ tasks[1].ok

\* ----------------------------------------------------------------------
\* C30: the offset a goroutine is started with (and sends as
\* X-Upload-Offset) is the number of bytes the content reader had delivered
\* before the Read of that chunk, so the chunk's bytes are those at
\* [offset, offset + length) of the content, for every reader.
C30_OffsetIsSourcePosition ==
    [][Len(tasks') > Len(tasks) =>
          /\ tasks'[Len(tasks')].o = srcPos - bytesRead
          /\ tasks'[Len(tasks')].len = bytesRead]_vars

\* ----------------------------------------------------------------------
\* The dispatch loop holds an element of concurrencyChan that no goroutine
\* will receive: it has sent for the chunk at offset and has not started the
\* goroutine yet, or it left the loop (break or return) before starting it.
LoopHolds ==
    \/ pc \in {"select", "read", "go"}
    \/ pc \in {"wait", "finish", "scan", "done"} /\ offset < fileUpload.FileSizeBytes

\* The step condition of C31: concurrencyChan is received from only by a
\* goroutine in its deferred function, one element per goroutine, as its last
\* statement; a goroutine is started only when the loop has sent for it.
C31_Step ==
    /\ concurrencyChan' < concurrencyChan =>
          /\ concurrencyChan' = concurrencyChan - 1
          /\ Cardinality({i \in TaskIds :
                             tasks[i].phase = "release" /\ tasks'[i].phase = "exit"}) = 1
    /\ \A i \in TaskIds :
          tasks[i].phase # "exit" /\ tasks'[i].phase = "exit" =>
              tasks[i].phase = "release" /\ concurrencyChan' = concurrencyChan - 1
    /\ \A i \in TaskIds : tasks[i].phase = "exit" => tasks'[i].phase = "exit"
    /\ Len(tasks') > Len(tasks) =>
          concurrencyChan' = concurrencyChan /\ concurrencyChan > Cardinality(RunningTasks)

\* C31: every goroutine receives from concurrencyChan exactly once, when it
\* finishes, whether its upload succeeded or failed; that receive never
\* blocks; and the channel holds one element for every goroutine that has not
\* finished, plus the one the loop holds.
C31_OneReleasePerTask ==
    /\ [][C31_Step]_vars
    /\ [](/\ concurrencyChan = Cardinality(RunningTasks) + (IF LoopHolds THEN 1 ELSE 0)
          /\ \A i \in TaskIds : tasks[i].phase = "release" => ENABLED TaskRelease(i))

\* A failed and a successful goroutine have both finished and the channel is
\* empty again.
C31_Witness ==
    /\ Len(tasks) = 2 /\ concurrencyChan = 0 /\ pc = "done"
    /\ tasks[1].phase = "exit" /\ ~tasks[1].ok
    /\ tasks[2].phase = "exit" /\ tasks[2].ok

\* ----------------------------------------------------------------------
\* The transport call of do record d is answered 2xx in this step, leaving
\* record e; wantResp says whether the call passed a response shape.  The
\* call returns at once, without a sleep or another attempt: nil, or the
\* decoding error if a shape was passed and the body is not decodable.
ReturnsOn2xx(d, e, wantResp) ==
    Answered(d, e) /\ e.last = StatusOK =>
        /\ e.done /\ ~e.backoff
        /\ e.attempt = d.attempt /\ e.calls = d.calls /\ e.sleeps = d.sleeps
        /\ e.err = IF wantResp /\ e.lastBody = "bad" THEN DecodeErr ELSE Nil

\* The step condition of C32.  An empty body leaves the shape as it was
\* passed (the zero value); without a shape nothing is decoded, whatever the
\* body, and a goroutine's upload has then succeeded.
C32_Step ==
    /\ ReturnsOn2xx(mdo, mdo', WantResp(pc))
    /\ Answered(mdo, mdo') /\ mdo'.last = StatusOK
          /\ (~WantResp(pc) \/ mdo'.lastBody = "empty") =>
          fileUpload' = fileUpload /\ scanResponse' = scanResponse
    /\ \A i \in TaskIds :
          /\ ReturnsOn2xx(tasks[i].do, tasks'[i].do, FALSE)
          /\ Answered(tasks[i].do, tasks'[i].do) /\ tasks'[i].do.last = StatusOK =>
                /\ tasks'[i].ok /\ tasks'[i].phase = "wgDone"
                /\ fileUpload' = fileUpload /\ scanResponse' = scanResponse

\* C32: a 2xx answer ends the do() call without a retry: with nil when no
\* shape was passed (the body is not looked at) or when the body is empty
\* (the shape stays undecoded) or decodes, and with the decoding error when a
\* shape was passed and the body does not decode.
C32_SuccessPath ==
    /\ [][C32_Step]_vars
    /\ [](pc = "init" /\ mdo.done /\ mdo.last = StatusOK /\ mdo.lastBody # "json" =>
             fileUpload = ZeroFileUpload)

\* completeFileUpload, which passes no shape, was answered 200 with a body
\* that is not JSON and returned nil; initFileUpload had decoded a session.
C32_Witness ==
    /\ pc = "finish" /\ mdo.done /\ mdo.err = Nil
    /\ mdo.last = StatusOK /\ mdo.lastBody = "bad"
    /\ fileUpload.ChunkSize > 0 /\ Len(tasks) >= 1

\* ----------------------------------------------------------------------
\* C33: checkResponse returns nil exactly for the statuses 200..299; for
\* every other status it returns an *Error, whose Code is the status when
\* the body cannot be read, is empty or does not unmarshal, and is the code
\* of the body when the body unmarshals.
C33_CheckResponse ==
    response.err # Pending =>
        /\ response.err = Nil <=> (200 <= response.StatusCode /\ response.StatusCode <= 299)
        /\ response.err # Nil =>
              /\ response.err.kind = "Error"
              /\ response.Body.kind \in {"unreadable", "absent", "invalid"} =>
                    response.err.code = response.StatusCode
              /\ response.Body.kind = "json" => response.err.code = response.Body.code

\* A 503 whose body unmarshals into an Error with code 429 gave that Error.
C33_Witness ==
    /\ response.StatusCode = 503 /\ response.Body = [kind |-> "json", code |-> 429]
    /\ response.err = StructuredError(429)

\* ----------------------------------------------------------------------
\* The do() calls whose record changes in this step.
ChangedDos ==
    {i \in TaskIds : tasks'[i].do # tasks[i].do} \cup (IF mdo' # mdo THEN {0} ELSE {})

\* The step condition of C34: no step changes the client; a do() call begins
\* with attempt 1 and no transport call made, in a new goroutine as in the
\* next step function; and a step moves the loop of one do() call at most.
C34_Step ==
    /\ clientVars' = clientVars
    /\ Len(tasks') > Len(tasks) =>
          /\ tasks'[Len(tasks')].do.attempt = 1 /\ tasks'[Len(tasks')].do.calls = 0
          /\ mdo' = mdo /\ \A i \in TaskIds : tasks'[i] = tasks[i]
    /\ pc' # pc /\ pc' \in {"finish", "scan"} => mdo'.attempt = 1 /\ mdo'.calls = 0
    /\ Cardinality(ChangedDos) <= 1

\* C34: every do() call counts its own attempts from 1: what it has used is
\* what itself has slept and sent, and whenever it stands at the top of its
\* loop it gets its attempt, up to retryCount + 1 of them, whatever other
\* calls, earlier or concurrent, have used; do() changes no field of the
\* client.
C34_StatelessExecutor ==
    /\ [][C34_Step]_vars
    /\ [](\A d \in LiveDos :
            /\ d.attempt = d.sleeps + 1
            /\ d.calls <= d.attempt /\ d.attempt <= retryCount + 1
            /\ ~d.done /\ ~d.inflight /\ ~d.backoff =>
                  DoSend(d, retryCount).inflight /\ d.calls = d.attempt - 1)
    /\ [](pc = "init" /\ issued = {} /\ ~mdo.inflight => mdo = NewDo)

\* Two goroutines are each in the last of their retryCount + 1 attempts at
\* the same time.
C34_Witness ==
    /\ Len(tasks) = 2
    /\ \A i \in TaskIds :
          /\ tasks[i].phase = "do" /\ tasks[i].do.inflight
          /\ tasks[i].do.calls = DefaultRetryCount + 1

\* ----------------------------------------------------------------------
\* One step of a do() call from record d to record e: a backoff sleep is
\* taken only by a call waiting after a 429 that was not the answer to its
\* last permitted attempt, and an attempt after the first is made only when
\* exactly one sleep was taken since the attempt before, which was answered 429.
SleepsBetweenAttempts(d, e) ==
    /\ e.sleeps > d.sleeps =>
          /\ e.sleeps = d.sleeps + 1 /\ e.calls = d.calls
          /\ d.backoff /\ ~d.done /\ d.last = StatusTooManyRequests
          /\ d.sleeps = d.calls - 1 /\ d.attempt <= retryCount
    /\ e.calls > d.calls =>
          /\ e.calls = d.calls + 1 /\ e.sleeps = d.sleeps
          /\ d.calls >= 1 => d.sleeps = d.calls /\ d.last = StatusTooManyRequests
    /\ Answered(d, e) /\ e.done => e.sleeps = d.sleeps /\ ~e.backoff

C35_Step ==
    /\ SleepsBetweenAttempts(mdo, mdo')
    /\ \A i \in TaskIds : SleepsBetweenAttempts(tasks[i].do, tasks'[i].do)

\* C35: within one do() call every attempt after the first directly follows
\* exactly one backoff sleep, which follows a 429; a call that has returned
\* (with nil, with a terminal error, or with the 429 of its last permitted
\* attempt) does not sleep; while an attempt is under way, while the call
\* waits to sleep and when it has returned, sleeps = attempts - 1.
C35_OneSleepPerRetry ==
    /\ [][C35_Step]_vars
    /\ [](\A d \in LiveDos :
            /\ d.inflight \/ d.backoff \/ (d.done /\ d.calls >= 1) =>
                  d.sleeps = d.calls - 1
            /\ d.done => ~d.backoff /\ d.calls >= 1
            /\ d.backoff => d.last = StatusTooManyRequests /\ d.calls <= retryCount
            /\ ~d.done /\ ~d.inflight /\ ~d.backoff => d.sleeps = d.calls)

\* A chunk upload returned the 429 of its sixth attempt after five sleeps,
\* and another goroutine has uploaded its chunk.
C35_Witness ==
    \E i, j \in TaskIds :
        /\ tasks[i].do.done /\ tasks[i].do.last = StatusTooManyRequests
        /\ tasks[i].do.calls = DefaultRetryCount + 1 /\ tasks[i].do.sleeps = DefaultRetryCount
        /\ tasks[j].ok /\ lateStarts = 0

\* ----------------------------------------------------------------------
\* The do() call of goroutine i returned an error that is not the error of
\* a done context (the goroutine keeps it until it is gone).
OwnError(i) == tasks[i].err.kind \notin {"nil", "ctx"}

IsOwn(e) == e.kind \notin {"nil", "ctx", "pending"}

\* Some goroutine has failed with an error of its own: one still holds it,
\* or it is the one in errChan.
OwnFailureSeen ==
    \/ \E i \in TaskIds : OwnError(i)
    \/ Len(errChan) > 0 /\ IsOwn(Head(errChan))

\* doChunkedUpload returns in this step, the caller's context is live and
\* some goroutine has failed with an error of its own.
ReturnsWithOwnFailure ==
    /\ stepErr["upload"] = Pending /\ stepErr'["upload"] # Pending
    /\ ctxErr = Nil /\ OwnFailureSeen

C36_ClaimedStep ==
    ReturnsWithOwnFailure =>
        /\ IsOwn(stepErr'["upload"])
        /\ \/ Len(errChan) > 0 /\ stepErr'["upload"] = Head(errChan)
           \/ \E i \in TaskIds : stepErr'["upload"] = tasks[i].err

C36_Step ==
    ReturnsWithOwnFailure /\ stepErr'["upload"] # ReadErr =>
        /\ Len(errChan) = 1 /\ stepErr'["upload"] = Head(errChan)
        /\ IsOwn(stepErr'["upload"]) /\ wg = 0

PlanUnfinished == offset < fileUpload.FileSizeBytes /\ srcPos < srcLen

\* doChunkedUpload returns in this step after the caller's context ended
\* with the plan unfinished: it returns an error.
C37_Step ==
    /\ stepErr["upload"] = Pending /\ stepErr'["upload"] # Pending
    /\ ctxErr # Nil /\ PlanUnfinished
    => stepErr'["upload"] # Nil

\* C37: if the caller's context is cancelled or times out while chunks of the
\* plan are not dispatched and the source is not at end-of-data,
\* doChunkedUpload returns a non-nil error, also when no goroutine is in
\* flight at that moment.
C37_CancelledUploadFails == [][C37_Step]_vars

\* ----------------------------------------------------------------------
\* The step condition of C38.  A failed Read of the source makes
\* doChunkedUpload and ScanFile return its error, with uploadCtx cancelled,
\* and starts nothing; after that return no goroutine is started, nothing is
\* read, no step function is called, and a goroutine whose do() call returns
\* does so with the error of the cancelled context.
C38_Step ==
    /\ stepErr'["upload"] = ReadErr /\ stepErr["upload"] # ReadErr =>
          /\ pc = "read" /\ pc' = "done"
          /\ ret' = [resp |-> NilResponse, err |-> ReadErr]
          /\ uploadCtxErr' # Nil
          /\ tasks' = tasks /\ offset' = offset /\ invoked' = invoked /\ issued' = issued
    /\ stepErr["upload"] = ReadErr =>
          /\ Len(tasks') = Len(tasks) /\ srcPos' = srcPos /\ offset' = offset
          /\ pc' = pc /\ ret' = ret /\ stepErr' = stepErr
          /\ invoked' = invoked /\ uploadCtxErr' = uploadCtxErr
          /\ \A i \in TaskIds :
                /\ tasks'[i].ok = tasks[i].ok
                /\ Answered(tasks[i].do, tasks'[i].do) =>
                      tasks'[i].do.done /\ tasks'[i].err = uploadCtxErr

\* C38: when a Read of the source fails with an error other than io.EOF,
\* doChunkedUpload starts no further chunk and returns that error, its
\* deferred cancel() ends uploadCtx so the goroutines in flight fail on the
\* context, and ScanFile returns the error of the Read with a nil response,
\* calling neither completeFileUpload nor scanUploadedFile.
C38_ReadErrorAborts ==
    /\ [][C38_Step]_vars
    /\ [](stepErr["upload"] = ReadErr =>
             /\ pc = "done" /\ ret = [resp |-> NilResponse, err |-> ReadErr]
             /\ uploadCtxErr # Nil
             /\ invoked["finish"] = 0 /\ invoked["scan"] = 0
             /\ stepErr["finish"] = Pending /\ stepErr["scan"] = Pending
             /\ issued \cap {"finish", "scan"} = {})

\* The Read for the second chunk failed while the first chunk was in
\* flight; that goroutine's do() call then returned context.Canceled.
C38_Witness ==
    /\ stepErr["upload"] = ReadErr /\ ret.err = ReadErr
    /\ Len(tasks) = 1 /\ offset > 0 /\ tasks[1].err = Canceled /\ ~tasks[1].ok

\* ----------------------------------------------------------------------
\* One step of a do() call from record d to record e: the call returns only
\* when a transport call returns, and returns nil only on a 2xx answer.
ReturnsNilOn2xxOnly(d, e) ==
    /\ ~d.done /\ e.done => Answered(d, e) /\ e.calls >= 1
    /\ ~d.done /\ e.done /\ e.err = Nil =>
          /\ 200 <= e.last /\ e.last <= 299
          /\ e.n429 < e.calls /\ e.n429 <= retryCount

C39_Step ==
    /\ ReturnsNilOn2xxOnly(mdo, mdo')
    /\ \A i \in TaskIds :
          /\ ReturnsNilOn2xxOnly(tasks[i].do, tasks'[i].do)
          /\ tasks'[i].ok /\ ~tasks[i].ok =>
                Answered(tasks[i].do, tasks'[i].do) /\ tasks'[i].do.last = StatusOK
    /\ \A s \in Steps \ {"upload"} :
          stepErr'[s] = Nil /\ stepErr[s] # Nil =>
              mdo.done /\ mdo.last = StatusOK /\ mdo.calls >= 1

\* C39: do() returns nil only if the last call of httpClient.Do it made was
\* answered with a 2xx status: not after 429 answers have used up its
\* retryCount + 1 attempts, and not without a call of httpClient.Do.
C39_SuccessNeeds2xx ==
    /\ [][C39_Step]_vars
    /\ [](\A d \in LiveDos :
            /\ d.done /\ d.err = Nil =>
                  /\ d.calls >= 1 /\ d.last = StatusOK /\ ~d.inflight
                  /\ d.n429 = d.calls - 1
            /\ d.n429 = retryCount + 1 =>
                  d.done /\ d.err = StructuredError(StatusTooManyRequests))

\* initFileUpload's do() call returned nil on the 200 of its last permitted
\* attempt, after retryCount answers of 429.
C39_Witness ==
    /\ pc = "init" /\ mdo.done /\ mdo.err = Nil /\ mdo.last = StatusOK
    /\ mdo.n429 = DefaultRetryCount /\ mdo.calls = DefaultRetryCount + 1

\* ----------------------------------------------------------------------
\* ScanFileRequest.ContentSizeBytes, the size the caller declares for
\* Content: the number of bytes Content holds.
ContentSizeBytes == srcLen

\* C40: whenever ScanFile returns success the lengths of the chunks uploaded
\* add up to the ContentSizeBytes of the request, whatever session the
\* successful initiate answer carried (a fileSizeBytes other than the size
\* requested, or no body at all).
C40_UploadsDeclaredSize ==
    pc = "done" /\ ret.err = Nil => SumLen(Len(tasks)) = ContentSizeBytes

====
